---- MODULE Spec2Model ----
(***************************************************************************)
(* A model of the client-side synchronization core: the chat storage       *)
(* version cache (go/chat/storage/version.go), the RPC client              *)
(* (rpc.Client: Call / Notify), the service daemon (service.Service) and   *)
(* the outbox deliverer it starts and stops.                               *)
(***************************************************************************)
EXTENDS Integers, Sequences, FiniteSets, TLC

(***************************************************************************)
(* Bounds of the model.                                                    *)
(***************************************************************************)
\* Version numbers range over 0..MaxVers.
MaxVers == 2
\* Number of goroutines calling into the one ServerVersions instance.
NumProcs == 2
\* Number of goroutines calling into the one rpc.Client.
NumCallers == 2
\* Number of frames the client sends on the transport.
MaxSeq == 2
\* Number of connections the daemon's listen loop accepts.
NumConns == 2
\* Number of login events after the daemon has started.
MaxLogins == 2
\* Number of outbox entries enqueued.
MaxEntries == 3
\* Number of delivery attempts recorded.
MaxAttempts == 4

\* The items the broker pushes.
MaxItems == 2

\* The tasks that wait for the start notification.
NumWaiters == 2

\* The callers of Service.Stop.
NumStoppers == 2

VARIABLES
    \* ---- ServerVersions (version.go) ----
    cached,       \* s.cached: <<>> is the nil pointer, <<v>> points to v
    db,           \* LocalChatDb under makeKey(): <<>> not found, <<raw>> found
    fault,        \* which collaborator currently fails: none, store or encode
    versionLock,  \* locks.Version: 0 is unlocked, p is held by goroutine p
    vpc,          \* per goroutine: idle, locked, put (Sync after memory write), ret
    vop,          \* per goroutine: the method it is executing
    mvers,        \* per goroutine: the `vers int` argument of MatchInbox/MatchBodies
    svers,        \* per goroutine: the `vers ServerCacheVers` argument of Sync
    vres,         \* per goroutine: the value the method returns (set before the
                  \* deferred Unlock runs)
    \* ---- rpc.Client and its transport ----
    errorUnwrapper, \* c.errorUnwrapper: "nil" or "unwrapper"
    tagsFunc,     \* c.tagsFunc: "nil" or "func"
    xpOpen,       \* the transport's connection is up (getDispatcher succeeds)
    receiving,    \* the transport's receive loop has been started
    nextSeq,      \* the dispatcher's next sequence number
    wire,         \* frames sent to the remote side and not yet read by it
    replies,      \* response frames on their way back
    calls,        \* the dispatcher's table of sequence numbers awaiting a response
    cpc,          \* per caller: idle, waiting (blocked in d.Call), returned
    cop,          \* per caller: the method it called last
    cseq,         \* per caller: the sequence number of its call frame
    cctx,         \* per caller: the ctx argument of its blocked call
    handed,       \* per caller: the RPC tags of the ctx handed to the dispatcher
    given,        \* per caller: the ErrorUnwrapper handed to the dispatcher
    cret,         \* per caller: what the method returned
    ctrace,       \* per caller: the collaborators the method invoked, in order
    \* ---- service.Service: Run, the listen loop and the connections ----
    pidLock,      \* the pid-file lock: free, other (another instance), self
    socketFile,   \* the socket bind file: none, stale, other (another instance's), self
    runPc,        \* Service.Run's position
    runErr,       \* the error Run returned ("nil" for none)
    exitCode,     \* d.G().ExitCode
    storesOpen,   \* the set of local stores ForceOpen has opened
    listener,     \* the listener l: none, bound, closed
    startCh,      \* d.startCh: the field is set or nil, and how often it was closed
    listenPc,     \* ListenLoop's goroutine: none, accepting, left, done
    listenErr,    \* the error ListenLoop returned
    stopPc,       \* per caller of Service.Stop: idle, sending, sent
    stopCode,     \* per caller of Service.Stop: the exit code it handed over
    crashed,      \* the process died of a nil pointer dereference
    hpc,          \* per connection: Handle's position
    xp,           \* per connection: the transport Handle wrapped around it (0: none)
    server,       \* per connection: the rpc.Server Handle runs (0: none)
    cl,           \* per connection: the channel given to AddConnection, <<>> when empty
    shutdownOnce, \* per connection: shutdownOnce.Do has run its function
    teardowns,    \* per connection: how often the shutdowners were shut down
    inflight,     \* per connection: a call is being served
    nextInst,     \* the next object identity
    hooks,        \* the shutdown hooks pushed so far, in order
    shutdownPc,   \* d.G().Shutdown(): how many of the hooks it has run (-1: not begun)
    \* ---- service.Service: the session components ----
    uid,          \* d.G().Env.GetUID(): 0 is the nil UID
    gregor,       \* d.gregor: 0 is nil, else the handler's identity
    gConnected,   \* d.gregor.IsConnected()
    gMessageDeliverer, \* d.G().MessageDeliverer: 0 is nil
    messageDeliverer,  \* d.messageDeliverer: 0 is nil
    backgroundIdentifier, \* d.backgroundIdentifier: id 0 is nil
    loginHooks,   \* the service is registered as login and logout hook
    logins,       \* login events so far
    retired,      \* the component instances that were in use at a logout
    otrace,       \* the collaborators the last OnLogin / OnLogout invoked, in order
    oret,         \* what the last OnLogin / OnLogout returned
    \* ---- chat.Deliverer ----
    dlvIdentity,  \* the identity delivery is active for (0: stopped)
    dlvLoops,     \* delivery loops running
    outbox,       \* per conversation: the entries not yet resolved, in enqueue order
    estate,       \* per entry: none, pending, retry, sent, failed
    econv,        \* per entry: its conversation (0: not enqueued)
    attempts,     \* the delivery attempts made, in order
    \* ---- the push client (gregorHandler) and the broker ----
    gConnecting,  \* a connection attempt of the connect loop is outstanding
    gRetry,       \* the connect loop retries after a network failure
    gSessions,    \* the sessions with the broker that are live
    gpath,        \* the session states the last operation on the handler went through
    gHandlers,    \* the handlers pushed on the handler, in order
    items,        \* the broker's live items, replayed on connect
    dismissedIds, \* the items dismissed so far
    dlast,        \* the last GregorDismiss: its item, whether it was dismissed before, its result
    lastDelivery, \* the last item the broker pushed and the handlers it reached
    gcall,        \* the last call of GregorInject, GregorInjectOutOfBandMessage,
                  \* HasGregor or chatRemoteClient, and what it returned
    strace,       \* the handler's methods tryGregordConnect invoked at startup
    sret,         \* what tryGregordConnect returned at startup ("none": not called)
    \* ---- the tasks waiting for the start notification ----
    wpc,          \* per waiter: idle, waiting, released
    wch           \* per waiter: what GetStartChannel returned: none, chan, nil

versionVars == <<cached, db, fault, versionLock, vpc, vop, mvers, svers, vres>>

xpVars == <<xpOpen, receiving, nextSeq, wire, replies, calls>>

callerVars == <<cpc, cop, cseq, cctx, handed, given, cret, ctrace>>

clientVars == <<errorUnwrapper, tagsFunc, xpVars, callerVars>>

runVars == <<pidLock, socketFile, runPc, runErr, exitCode, storesOpen, listener,
             startCh, listenPc, listenErr, stopPc, stopCode, crashed>>

connVars == <<hpc, xp, server, cl, shutdownOnce, teardowns, inflight>>

hookVars == <<hooks, shutdownPc>>

sessionVars == <<uid, gregor, gConnected, gMessageDeliverer, messageDeliverer,
                 backgroundIdentifier, loginHooks, logins, retired, otrace, oret>>

delivererVars == <<dlvIdentity, dlvLoops, outbox, estate, econv, attempts>>

serviceVars == <<runVars, connVars, hookVars, nextInst, sessionVars>>

loopVars == <<gConnecting, gRetry, gSessions, gpath>>

brokerVars == <<items, dismissedIds, dlast, lastDelivery, gcall>>

startupVars == <<strace, sret>>

pushVars == <<loopVars, gHandlers, brokerVars, startupVars>>

waitVars == <<wpc, wch>>

daemonVars == <<serviceVars, delivererVars, pushVars, waitVars>>

vars == <<versionVars, clientVars, daemonVars>>

(***************************************************************************)
(* chat1.ServerCacheVers and the storage errors.                           *)
(***************************************************************************)
Procs == 1..NumProcs

Vers == 0..MaxVers

ServerCacheVers == [InboxVers : Vers, BodiesVers : Vers]

\* chat1.ServerCacheVers{}: Go's zero value.
ZeroVers == [InboxVers |-> 0, BodiesVers |-> 0]

NoErr == [kind |-> "nil", expected |-> 0, actual |-> 0]

\* NewInternalError(ctx, s.DebugLabeler, "<what> error: ...")
NewInternalError(what) == [kind |-> what, expected |-> 0, actual |-> 0]

\* NewVersionMismatchError(expected, actual)
NewVersionMismatchError(expected, actual) ==
    [kind |-> "VersionMismatch", expected |-> expected, actual |-> actual]

\* encode(vers): the record becomes a blob of two fields.
encode(v) == <<v.InboxVers, v.BodiesVers>>

\* decode(raw, &srvVers): a blob decodes when it has the two fields.
decode(raw) ==
    IF Len(raw) = 2 /\ raw[1] \in Vers /\ raw[2] \in Vers
    THEN [ok |-> TRUE, v |-> [InboxVers |-> raw[1], BodiesVers |-> raw[2]]]
    ELSE [ok |-> FALSE, v |-> ZeroVers]

\* A stored blob that is not an encoded ServerCacheVers (a truncated record).
CorruptRaw == <<0>>

(***************************************************************************)
(* locks.Version: sync.Mutex.                                              *)
(***************************************************************************)
\* A Lock that does not wait for the holder to release.
LockNoWait(p) == versionLock' = p

\* locks.Version.Lock(): blocks until the mutex is free, then takes it.
Lock(p) == versionLock = 0 /\ versionLock' = p

\* defer locks.Version.Unlock()
Unlock(p) == versionLock' = 0

(***************************************************************************)
(* fetchLocked: the result and the new value of s.cached.                  *)
(***************************************************************************)
\* fetchLocked reading the store before the memory copy.
fetchLockedStoreFirst ==
    IF fault # "store" /\ db # <<>> /\ decode(db[1]).ok
    THEN [ret |-> [vers |-> decode(db[1]).v, err |-> NoErr],
          cached |-> <<decode(db[1]).v>>]
    ELSE IF cached # <<>>
    THEN [ret |-> [vers |-> cached[1], err |-> NoErr], cached |-> cached]
    ELSE [ret |-> [vers |-> ZeroVers, err |-> NoErr], cached |-> cached]

\* fetchLocked keeping the zero value in memory instead of the decoded record.
fetchLockedCachesZero ==
    IF cached # <<>>
    THEN [ret |-> [vers |-> cached[1], err |-> NoErr], cached |-> cached]
    ELSE IF fault = "store"
    THEN [ret |-> [vers |-> ZeroVers, err |-> NewInternalError("GetRaw")],
          cached |-> cached]
    ELSE IF db = <<>>
    THEN [ret |-> [vers |-> ZeroVers, err |-> NoErr], cached |-> cached]
    ELSE IF ~decode(db[1]).ok
    THEN [ret |-> [vers |-> ZeroVers, err |-> NewInternalError("decode")],
          cached |-> cached]
    ELSE [ret |-> [vers |-> decode(db[1]).v, err |-> NoErr],
          cached |-> <<ZeroVers>>]

fetchLocked ==
    \* Check in memory first
    IF cached # <<>>
    THEN [ret |-> [vers |-> cached[1], err |-> NoErr], cached |-> cached]
    \* Read from LevelDb
    ELSE IF fault = "store"
    THEN [ret |-> [vers |-> ZeroVers, err |-> NewInternalError("GetRaw")],
          cached |-> cached]
    ELSE IF db = <<>>
    THEN [ret |-> [vers |-> ZeroVers, err |-> NoErr], cached |-> cached]
    ELSE IF ~decode(db[1]).ok
    THEN [ret |-> [vers |-> ZeroVers, err |-> NewInternalError("decode")],
          cached |-> cached]
    \* Store in memory
    ELSE [ret |-> [vers |-> decode(db[1]).v, err |-> NoErr],
          cached |-> <<decode(db[1]).v>>]

(***************************************************************************)
(* matchLocked(vers, versFunc): versFunc is the field it selects.          *)
(***************************************************************************)
\* matchLocked with the two components of the error exchanged.
matchLockedSwapped(vers, field) ==
    LET f == fetchLocked
        retVers == f.ret.vers[field]
    IN  [err |-> IF f.ret.err # NoErr THEN f.ret.err
                 ELSE IF retVers # vers
                 THEN NewVersionMismatchError(retVers, vers)
                 ELSE NoErr,
         cached |-> f.cached]

matchLocked(vers, field) ==
    LET f == fetchLocked
        retVers == f.ret.vers[field]
    IN  [err |-> IF f.ret.err # NoErr THEN f.ret.err
                 ELSE IF retVers # vers
                 THEN NewVersionMismatchError(vers, retVers)
                 ELSE NoErr,
         cached |-> f.cached]

(***************************************************************************)
(* The methods of ServerVersions, one goroutine p each.  Every method      *)
(* takes locks.Version, runs its body and returns through the deferred     *)
(* Unlock.                                                                 *)
(***************************************************************************)
Enter(p, op) ==
    /\ vpc[p] = "idle"
    /\ Lock(p)
    /\ vpc' = [vpc EXCEPT ![p] = "locked"]
    /\ vop' = [vop EXCEPT ![p] = op]

FetchLock(p) ==
    /\ Enter(p, "Fetch")
    /\ UNCHANGED <<cached, db, fault, mvers, svers, vres, clientVars, daemonVars>>

Fetch(p) ==
    /\ vpc[p] = "locked" /\ vop[p] = "Fetch"
    /\ cached' = fetchLocked.cached
    /\ vres' = [vres EXCEPT ![p] = fetchLocked.ret]
    /\ vpc' = [vpc EXCEPT ![p] = "ret"]
    /\ UNCHANGED <<db, fault, versionLock, vop, mvers, svers, clientVars, daemonVars>>

MatchInboxLock(p) ==
    /\ \E vers \in Vers : mvers' = [mvers EXCEPT ![p] = vers]
    /\ Enter(p, "MatchInbox")
    /\ UNCHANGED <<cached, db, fault, svers, vres, clientVars, daemonVars>>

MatchInbox(p) ==
    /\ vpc[p] = "locked" /\ vop[p] = "MatchInbox"
    /\ LET m == matchLocked(mvers[p], "InboxVers")
       IN  /\ cached' = m.cached
           /\ vres' = [vres EXCEPT ![p] = [vers |-> ZeroVers, err |-> m.err]]
    /\ vpc' = [vpc EXCEPT ![p] = "ret"]
    /\ UNCHANGED <<db, fault, versionLock, vop, mvers, svers, clientVars, daemonVars>>

MatchBodiesLock(p) ==
    /\ \E vers \in Vers : mvers' = [mvers EXCEPT ![p] = vers]
    /\ Enter(p, "MatchBodies")
    /\ UNCHANGED <<cached, db, fault, svers, vres, clientVars, daemonVars>>

MatchBodies(p) ==
    /\ vpc[p] = "locked" /\ vop[p] = "MatchBodies"
    /\ LET m == matchLocked(mvers[p], "BodiesVers")
       IN  /\ cached' = m.cached
           /\ vres' = [vres EXCEPT ![p] = [vers |-> ZeroVers, err |-> m.err]]
    /\ vpc' = [vpc EXCEPT ![p] = "ret"]
    /\ UNCHANGED <<db, fault, versionLock, vop, mvers, svers, clientVars, daemonVars>>

SyncLock(p) ==
    /\ \E vers \in ServerCacheVers : svers' = [svers EXCEPT ![p] = vers]
    /\ Enter(p, "Sync")
    /\ UNCHANGED <<cached, db, fault, mvers, vres, clientVars, daemonVars>>

\* Sync keeping a memory copy it already has.
SyncMemKeepsOld(p) ==
    /\ vpc[p] = "locked" /\ vop[p] = "Sync"
    /\ cached' = IF cached = <<>> THEN <<svers[p]>> ELSE cached
    /\ vpc' = [vpc EXCEPT ![p] = "put"]
    /\ UNCHANGED <<db, fault, versionLock, vop, mvers, svers, vres, clientVars, daemonVars>>

\* Write in memory: s.cached = &vers
SyncMem(p) ==
    /\ vpc[p] = "locked" /\ vop[p] = "Sync"
    /\ cached' = <<svers[p]>>
    /\ vpc' = [vpc EXCEPT ![p] = "put"]
    /\ UNCHANGED <<db, fault, versionLock, vop, mvers, svers, vres, clientVars, daemonVars>>

\* Write out to LevelDB: encode, then PutRaw
SyncPut(p) ==
    /\ vpc[p] = "put" /\ vop[p] = "Sync"
    /\ IF fault = "encode"
       THEN /\ vres' = [vres EXCEPT ![p] =
                           [vers |-> ZeroVers, err |-> NewInternalError("encode")]]
            /\ db' = db
       ELSE IF fault = "store"
       THEN /\ vres' = [vres EXCEPT ![p] =
                           [vers |-> ZeroVers, err |-> NewInternalError("PutRaw")]]
            /\ db' = db
       ELSE /\ vres' = [vres EXCEPT ![p] = [vers |-> ZeroVers, err |-> NoErr]]
            /\ db' = <<encode(svers[p])>>
    /\ vpc' = [vpc EXCEPT ![p] = "ret"]
    /\ UNCHANGED <<cached, fault, versionLock, vop, mvers, svers, clientVars, daemonVars>>

\* The deferred Unlock, then the method returns to its caller.
Return(p) ==
    /\ vpc[p] = "ret"
    /\ Unlock(p)
    /\ vpc' = [vpc EXCEPT ![p] = "idle"]
    /\ vop' = [vop EXCEPT ![p] = "none"]
    /\ mvers' = [mvers EXCEPT ![p] = 0]
    /\ svers' = [svers EXCEPT ![p] = ZeroVers]
    /\ vres' = [vres EXCEPT ![p] = [vers |-> ZeroVers, err |-> NoErr]]
    /\ UNCHANGED <<cached, db, fault, clientVars, daemonVars>>

\* The environment: the store or the codec starts or stops failing.
SetFault ==
    /\ \E f \in {"none", "store", "encode"} : f # fault /\ fault' = f
    /\ UNCHANGED <<cached, db, versionLock, vpc, vop, mvers, svers, vres, clientVars, daemonVars>>

(***************************************************************************)
(* rpc.Client: contexts, tags, errors.                                     *)
(***************************************************************************)
Callers == 1..NumCallers

\* Context keys, the tag names the log-tag map gives them, and context values.
Keys == {"k1", "k2"}

TagNames == {"t1", "t2"}

Values == {"a", "b"}

\* ctx.Value(key) == nil
NilValue == "nil"

\* A context.Context: nil, or its values and the (tags, ok) that
\* LogTagsFromContext reports for it.
NilCtx ==
    [isNil |-> TRUE, ok |-> FALSE, tags |-> [k \in Keys |-> "t1"],
     vals |-> [k \in Keys |-> NilValue]]

\* A context for which LogTagsFromContext reports no tags.
PlainCtx ==
    [isNil |-> FALSE, ok |-> FALSE, tags |-> [k \in Keys |-> "t1"],
     vals |-> [k \in Keys |-> NilValue]]

\* The contexts with log tags: every map of keys to tag names, every value.
TaggedCtxs ==
    [isNil : {FALSE}, ok : {TRUE}, tags : [Keys -> TagNames],
     vals : [Keys -> Values \cup {NilValue}]]

\* A context with log tags where k1 has a value and k2 has none.
OneTagCtx ==
    [isNil |-> FALSE, ok |-> TRUE, tags |-> [k \in Keys |-> IF k = "k1" THEN "t1" ELSE "t2"],
     vals |-> [k \in Keys |-> IF k = "k1" THEN "a" ELSE NilValue]]

\* Every context of the model.
Ctxs == {NilCtx, PlainCtx} \cup TaggedCtxs

\* The two kinds of context a caller passes: nil, and one with log tags.
CtxKinds == {NilCtx, OneTagCtx}

\* make(CtxRpcTags)
EmptyTags == [t \in {} |-> NilValue]

\* A context that carries no RPC tags of this call.
NoTags == [attached |-> FALSE, rpcTags |-> EmptyTags]

\* AddRpcTagsToContext(ctx, rpcTags): the context now carries rpcTags.
AddRpcTagsToContext(rpcTags) == [attached |-> TRUE, rpcTags |-> rpcTags]

Err(kind) == [kind |-> kind, typed |-> FALSE]

NilErr == Err("nil")

\* The error kinds the remote side can put in a response frame.
RemoteErrs == {"remote"}

\* The ErrorUnwrapper turns the generic wire error into a typed error.
Unwrap(e) == [kind |-> e.kind, typed |-> TRUE]

NoRes == <<>>

\* The result a response frame carries.
Result == <<"result">>

(***************************************************************************)
(* Client.Call, lines 35-46: the tags map built from the context.  Go      *)
(* ranges over a map in no fixed order, so when two keys share a tag name  *)
(* either value may be the one that stays.                                 *)
(***************************************************************************)
\* The loop without its `v != nil` test.
rpcTagsKeepsNil(ctx) ==
    LET names == {ctx.tags[k] : k \in Keys}
    IN  {m \in [names -> Values \cup {NilValue}] :
           \A t \in names : \E k \in Keys : ctx.tags[k] = t /\ m[t] = ctx.vals[k]}

rpcTagsOf(ctx) ==
    LET live == {k \in Keys : ctx.vals[k] # NilValue}
        names == {ctx.tags[k] : k \in live}
    IN  {m \in [names -> Values] :
           \A t \in names : \E k \in live : ctx.tags[k] = t /\ m[t] = ctx.vals[k]}

\* Lines 35-46: the contexts Call may hand on, and the collaborators invoked.
tagStep(ctx) ==
    IF tagsFunc = "nil"
    THEN [handed |-> {NoTags}, trace |-> <<>>]
    ELSE IF ~ctx.ok
    THEN [handed |-> {NoTags}, trace |-> <<"tagsFunc">>]
    ELSE [handed |-> {AddRpcTagsToContext(m) : m \in rpcTagsOf(ctx)},
          trace |-> <<"tagsFunc", "AddRpcTagsToContext">>]

(***************************************************************************)
(* The caller's side of a method that returns without blocking.            *)
(***************************************************************************)
Returns(c, op, err, trace) ==
    /\ cpc' = [cpc EXCEPT ![c] = "returned"]
    /\ cop' = [cop EXCEPT ![c] = op]
    /\ cseq' = [cseq EXCEPT ![c] = 0]
    /\ cctx' = [cctx EXCEPT ![c] = NilCtx]
    /\ handed' = [handed EXCEPT ![c] = NoTags]
    /\ given' = [given EXCEPT ![c] = "nil"]
    /\ cret' = [cret EXCEPT ![c] = [res |-> NoRes, err |-> err]]
    /\ ctrace' = [ctrace EXCEPT ![c] = trace]

(***************************************************************************)
(* The dispatcher (d.Call, d.Notify, the receive loop).                    *)
(***************************************************************************)
\* d.Call(ctx, method, arg, res, u): sends the call frame under a fresh
\* sequence number and blocks for the response; a local send error returns.
\* ctx is the caller's context and h the RPC tags it carries when handed over.
dCall(c, ctx, h, u, trace) ==
    /\ nextSeq <= MaxSeq
    /\ \E sendOk \in BOOLEAN :
         IF sendOk
         THEN /\ wire' = wire \cup {[type |-> "call", n |-> nextSeq]}
              /\ calls' = calls \cup {nextSeq}
              /\ nextSeq' = nextSeq + 1
              /\ cpc' = [cpc EXCEPT ![c] = "waiting"]
              /\ cop' = [cop EXCEPT ![c] = "Call"]
              /\ cseq' = [cseq EXCEPT ![c] = nextSeq]
              /\ cctx' = [cctx EXCEPT ![c] = ctx]
              /\ handed' = [handed EXCEPT ![c] = h]
              /\ given' = [given EXCEPT ![c] = u]
              /\ cret' = [cret EXCEPT ![c] = [res |-> NoRes, err |-> NilErr]]
              /\ ctrace' = [ctrace EXCEPT ![c] = trace]
         ELSE /\ Returns(c, "Call", Err("SendError"), trace)
              /\ UNCHANGED <<wire, calls, nextSeq>>
    /\ UNCHANGED <<xpOpen, replies>>

\* d.Notify(ctx, method, arg): sends the notification frame and returns.  The
\* frame has no sequence number; n is its position in the stream.
dNotify(c, trace) ==
    /\ nextSeq <= MaxSeq
    /\ \E sendOk \in BOOLEAN :
         IF sendOk
         THEN /\ wire' = wire \cup {[type |-> "notify", n |-> nextSeq]}
              /\ nextSeq' = nextSeq + 1
              /\ Returns(c, "Notify", NilErr, trace)
         ELSE /\ Returns(c, "Notify", Err("SendError"), trace)
              /\ UNCHANGED <<wire, nextSeq>>
    /\ UNCHANGED <<xpOpen, receiving, replies, calls>>

(***************************************************************************)
(* Client.Call and Client.Notify.                                          *)
(***************************************************************************)
\* Call testing ctx only after it has started reception and asked for the
\* dispatcher.
CallChecksLate(c, ctx) ==
    /\ cpc[c] # "waiting"
    /\ receiving' = TRUE
    /\ IF ctx.isNil
       THEN /\ Returns(c, "Call", Err("NoContext"), <<"receiveFrames", "getDispatcher">>)
            /\ UNCHANGED <<xpOpen, nextSeq, wire, replies, calls>>
       ELSE \E h \in tagStep(ctx).handed :
              LET trace == tagStep(ctx).trace \o <<"receiveFrames", "getDispatcher">>
              IN  IF ~xpOpen
                  THEN /\ Returns(c, "Call", Err("EOF"), trace)
                       /\ UNCHANGED <<xpOpen, nextSeq, wire, replies, calls>>
                  ELSE dCall(c, ctx, h, errorUnwrapper, trace \o <<"d.Call">>)
    /\ UNCHANGED <<errorUnwrapper, tagsFunc, versionVars, daemonVars>>

\* Call handing no ErrorUnwrapper to the dispatcher.
CallNoUnwrapper(c, ctx) ==
    /\ cpc[c] # "waiting"
    /\ IF ctx.isNil
       THEN /\ Returns(c, "Call", Err("NoContext"), <<>>)
            /\ UNCHANGED xpVars
       ELSE \E h \in tagStep(ctx).handed :
              LET trace == tagStep(ctx).trace \o <<"receiveFrames", "getDispatcher">>
              IN  /\ receiving' = TRUE
                  /\ IF ~xpOpen
                     THEN /\ Returns(c, "Call", Err("EOF"), trace)
                          /\ UNCHANGED <<xpOpen, nextSeq, wire, replies, calls>>
                     ELSE dCall(c, ctx, h, "nil", trace \o <<"d.Call">>)
    /\ UNCHANGED <<errorUnwrapper, tagsFunc, versionVars, daemonVars>>

Call(c, ctx) ==
    /\ cpc[c] # "waiting"
    /\ IF ctx.isNil
       THEN /\ Returns(c, "Call", Err("NoContext"), <<>>)
            /\ UNCHANGED xpVars
       ELSE \E h \in tagStep(ctx).handed :
              LET trace == tagStep(ctx).trace \o <<"receiveFrames", "getDispatcher">>
              IN  /\ receiving' = TRUE
                  /\ IF ~xpOpen
                     THEN /\ Returns(c, "Call", Err("EOF"), trace)
                          /\ UNCHANGED <<xpOpen, nextSeq, wire, replies, calls>>
                     ELSE dCall(c, ctx, h, errorUnwrapper, trace \o <<"d.Call">>)
    /\ UNCHANGED <<errorUnwrapper, tagsFunc, versionVars, daemonVars>>

\* Notify starting frame reception the way Call does.
NotifyStartsReceive(c, ctx) ==
    /\ cpc[c] # "waiting"
    /\ IF ctx.isNil
       THEN /\ Returns(c, "Notify", Err("NoContext"), <<>>)
            /\ UNCHANGED xpVars
       ELSE /\ receiving' = TRUE
            /\ IF ~xpOpen
               THEN /\ Returns(c, "Notify", Err("EOF"), <<"receiveFrames", "getDispatcher">>)
                    /\ UNCHANGED <<wire, nextSeq>>
               ELSE /\ nextSeq <= MaxSeq
                    /\ wire' = wire \cup {[type |-> "notify", n |-> nextSeq]}
                    /\ nextSeq' = nextSeq + 1
                    /\ Returns(c, "Notify", NilErr,
                               <<"receiveFrames", "getDispatcher", "d.Notify">>)
            /\ UNCHANGED <<xpOpen, replies, calls>>
    /\ UNCHANGED <<errorUnwrapper, tagsFunc, versionVars, daemonVars>>

Notify(c, ctx) ==
    /\ cpc[c] # "waiting"
    /\ IF ctx.isNil
       THEN /\ Returns(c, "Notify", Err("NoContext"), <<>>)
            /\ UNCHANGED xpVars
       ELSE IF ~xpOpen
       THEN /\ Returns(c, "Notify", Err("EOF"), <<"getDispatcher">>)
            /\ UNCHANGED xpVars
       ELSE dNotify(c, <<"getDispatcher", "d.Notify">>)
    /\ UNCHANGED <<errorUnwrapper, tagsFunc, versionVars, daemonVars>>

(***************************************************************************)
(* Completion of a blocked call, and the remote side.                      *)
(***************************************************************************)
\* The remote side reads a call frame and answers with a result or an error.
Serve ==
    /\ xpOpen
    /\ \E f \in wire :
         /\ f.type = "call"
         /\ wire' = wire \ {f}
         /\ \E kind \in {"result"} \cup RemoteErrs :
              replies' = replies \cup {[seqid |-> f.n, kind |-> kind]}
    /\ UNCHANGED <<xpOpen, receiving, nextSeq, calls, callerVars>>
    /\ UNCHANGED <<errorUnwrapper, tagsFunc, versionVars, daemonVars>>

\* The remote side reads a notification; whatever its handler does, no frame
\* goes back.
ServeNotify ==
    /\ xpOpen
    /\ \E f \in wire : f.type = "notify" /\ wire' = wire \ {f}
    /\ UNCHANGED <<xpOpen, receiving, nextSeq, replies, calls, callerVars>>
    /\ UNCHANGED <<errorUnwrapper, tagsFunc, versionVars, daemonVars>>

\* The receive loop reads a response frame: it completes the call waiting
\* under that sequence number, or drops the frame when none is.
Deliver ==
    /\ xpOpen /\ receiving
    /\ \E r \in replies :
         /\ replies' = replies \ {r}
         /\ IF r.seqid \in calls
            THEN \E c \in Callers :
                   /\ cpc[c] = "waiting" /\ cseq[c] = r.seqid
                   /\ calls' = calls \ {r.seqid}
                   /\ cpc' = [cpc EXCEPT ![c] = "returned"]
                   /\ cseq' = [cseq EXCEPT ![c] = 0]
                   /\ cctx' = [cctx EXCEPT ![c] = NilCtx]
                   /\ cret' = [cret EXCEPT ![c] =
                         IF r.kind = "result"
                         THEN [res |-> Result, err |-> NilErr]
                         ELSE [res |-> NoRes,
                               err |-> IF given[c] = "nil" THEN Err(r.kind)
                                       ELSE Unwrap(Err(r.kind))]]
                   /\ handed' = [handed EXCEPT ![c] = NoTags]
                   /\ given' = [given EXCEPT ![c] = "nil"]
                   /\ UNCHANGED <<cop, ctrace>>
            ELSE UNCHANGED <<calls, callerVars>>
    /\ UNCHANGED <<xpOpen, receiving, nextSeq, wire>>
    /\ UNCHANGED <<errorUnwrapper, tagsFunc, versionVars, daemonVars>>

\* A cancellation that closes the connection under the other calls.
CancelTearsDown(c) ==
    /\ cpc[c] = "waiting"
    /\ xpOpen' = FALSE
    /\ calls' = calls \ {cseq[c]}
    /\ cpc' = [cpc EXCEPT ![c] = "returned"]
    /\ cseq' = [cseq EXCEPT ![c] = 0]
    /\ cctx' = [cctx EXCEPT ![c] = NilCtx]
    /\ cret' = [cret EXCEPT ![c] = [res |-> NoRes, err |-> Err("canceled")]]
    /\ handed' = [handed EXCEPT ![c] = NoTags]
    /\ given' = [given EXCEPT ![c] = "nil"]
    /\ UNCHANGED <<cop, ctrace>>
    /\ UNCHANGED <<receiving, nextSeq, wire, replies>>
    /\ UNCHANGED <<errorUnwrapper, tagsFunc, versionVars, daemonVars>>

\* The context of a blocked call is cancelled: the call returns the
\* cancellation error and its table entry goes; the transport stays.
Cancel(c) ==
    /\ cpc[c] = "waiting"
    /\ calls' = calls \ {cseq[c]}
    /\ cpc' = [cpc EXCEPT ![c] = "returned"]
    /\ cseq' = [cseq EXCEPT ![c] = 0]
    /\ cctx' = [cctx EXCEPT ![c] = NilCtx]
    /\ cret' = [cret EXCEPT ![c] = [res |-> NoRes, err |-> Err("canceled")]]
    /\ handed' = [handed EXCEPT ![c] = NoTags]
    /\ given' = [given EXCEPT ![c] = "nil"]
    /\ UNCHANGED <<cop, ctrace>>
    /\ UNCHANGED <<xpOpen, receiving, nextSeq, wire, replies>>
    /\ UNCHANGED <<errorUnwrapper, tagsFunc, versionVars, daemonVars>>

\* The connection goes down: blocked calls fail, frames in flight are lost,
\* and getDispatcher fails from now on.
Close ==
    /\ xpOpen
    /\ xpOpen' = FALSE
    /\ wire' = {} /\ replies' = {} /\ calls' = {}
    /\ cpc' = [c \in Callers |-> IF cpc[c] = "waiting" THEN "returned" ELSE cpc[c]]
    /\ cret' = [c \in Callers |-> IF cpc[c] = "waiting"
                                  THEN [res |-> NoRes, err |-> Err("EOF")]
                                  ELSE cret[c]]
    /\ handed' = [c \in Callers |-> NoTags]
    /\ given' = [c \in Callers |-> "nil"]
    /\ cseq' = [c \in Callers |-> 0]
    /\ cctx' = [c \in Callers |-> NilCtx]
    /\ UNCHANGED <<cop, ctrace, receiving, nextSeq>>
    /\ UNCHANGED <<errorUnwrapper, tagsFunc, versionVars, daemonVars>>

(***************************************************************************)
(* service.Service: Run.                                                   *)
(***************************************************************************)
Conns == 1..NumConns

\* The identities that log in.
Uids == {1, 2}

\* keybase1.ExitCode values handed to Stop.
ExitCodes == {0, 2}

Stoppers == 1..NumStoppers

\* libkb.LockPIDFile.Lock: the lock is exclusive, it is refused while another
\* instance holds it.
LockPIDFileLock == pidLock = "free"

\* Run returns err; its deferred function closes d.startCh unless
\* ConfigRPCServer has set the field to nil.
RunReturns(err) ==
    /\ runPc' = "returned"
    /\ runErr' = err
    /\ startCh' = IF startCh.set
                    THEN [startCh EXCEPT !.closes = @ + 1]
                    ELSE startCh

\* Run up to writeServiceInfo.
RunWriteServiceInfo(ok) ==
    /\ ~crashed
    /\ runPc = "start"
    /\ IF ok
         THEN /\ runPc' = "info"
              /\ UNCHANGED <<runErr, startCh>>
         ELSE RunReturns("info")
    /\ UNCHANGED <<pidLock, socketFile, exitCode, storesOpen, listener,
                   listenPc, listenErr, stopPc, stopCode, crashed>>
    /\ UNCHANGED <<connVars, hookVars, nextInst, sessionVars, delivererVars>>
    /\ UNCHANGED <<versionVars, clientVars, pushVars, waitVars>>

\* GetExclusiveLock that goes on without the lock when it is held.
RunGetExclusiveLockIgnoresHeld(ok) ==
    /\ ~crashed
    /\ runPc = "info"
    /\ IF ok
         THEN /\ pidLock' = IF LockPIDFileLock THEN "self" ELSE pidLock
              /\ hooks' = Append(hooks, [kind |-> "lock", conn |-> 0])
              /\ runPc' = "locked"
              /\ UNCHANGED <<runErr, startCh>>
         ELSE /\ RunReturns("lock")
              /\ UNCHANGED <<pidLock, hooks>>
    /\ UNCHANGED <<socketFile, exitCode, storesOpen, listener,
                   listenPc, listenErr, stopPc, stopCode, crashed>>
    /\ UNCHANGED <<connVars, shutdownPc, nextInst, sessionVars, delivererVars>>
    /\ UNCHANGED <<versionVars, clientVars, pushVars, waitVars>>

\* GetExclusiveLock: ensureRuntimeDir, lockPIDFile, then the shutdown hook that
\* releases the lock. ok = FALSE is a failing ensureRuntimeDir or GetPidFile.
RunGetExclusiveLock(ok) ==
    /\ ~crashed
    /\ runPc = "info"
    /\ IF ok /\ LockPIDFileLock
         THEN /\ pidLock' = "self"
              /\ hooks' = Append(hooks, [kind |-> "lock", conn |-> 0])
              /\ runPc' = "locked"
              /\ UNCHANGED <<runErr, startCh>>
         ELSE /\ RunReturns("lock")
              /\ UNCHANGED <<pidLock, hooks>>
    /\ UNCHANGED <<socketFile, exitCode, storesOpen, listener,
                   listenPc, listenErr, stopPc, stopCode, crashed>>
    /\ UNCHANGED <<connVars, shutdownPc, nextInst, sessionVars, delivererVars>>
    /\ UNCHANGED <<versionVars, clientVars, pushVars, waitVars>>

\* cleanupSocketFile: removes the socket file when one exists. ok = FALSE is a
\* failing GetSocketBindFile, FileExists or os.Remove.
RunCleanupSocketFile(ok) ==
    /\ ~crashed
    /\ runPc = "locked"
    /\ IF ok
         THEN /\ socketFile' = "none"
              /\ runPc' = "cleaned"
              /\ UNCHANGED <<runErr, startCh>>
         ELSE /\ RunReturns("cleanup")
              /\ UNCHANGED socketFile
    /\ UNCHANGED <<pidLock, exitCode, storesOpen, listener,
                   listenPc, listenErr, stopPc, stopCode, crashed>>
    /\ UNCHANGED <<connVars, hookVars, nextInst, sessionVars, delivererVars>>
    /\ UNCHANGED <<versionVars, clientVars, pushVars, waitVars>>

\* A ForceOpen whose error Run drops.
RunForceOpenIgnoresError(at, store, next, ok) ==
    /\ ~crashed
    /\ runPc = at
    /\ storesOpen' = IF ok THEN storesOpen \cup {store} ELSE storesOpen
    /\ runPc' = next
    /\ UNCHANGED <<runErr, startCh>>
    /\ UNCHANGED <<pidLock, socketFile, exitCode, listener,
                   listenPc, listenErr, stopPc, stopCode, crashed>>
    /\ UNCHANGED <<connVars, hookVars, nextInst, sessionVars, delivererVars>>
    /\ UNCHANGED <<versionVars, clientVars, pushVars, waitVars>>

\* d.G().LocalDb.ForceOpen() and d.G().LocalChatDb.ForceOpen().
RunForceOpen(at, store, next, ok) ==
    /\ ~crashed
    /\ runPc = at
    /\ IF ok
         THEN /\ storesOpen' = storesOpen \cup {store}
              /\ runPc' = next
              /\ UNCHANGED <<runErr, startCh>>
         ELSE /\ RunReturns(store)
              /\ UNCHANGED storesOpen
    /\ UNCHANGED <<pidLock, socketFile, exitCode, listener,
                   listenPc, listenErr, stopPc, stopCode, crashed>>
    /\ UNCHANGED <<connVars, hookVars, nextInst, sessionVars, delivererVars>>
    /\ UNCHANGED <<versionVars, clientVars, pushVars, waitVars>>

RunForceOpenLocalDb(ok) == RunForceOpen("cleaned", "LocalDb", "localDb", ok)

RunForceOpenLocalChatDb(ok) == RunForceOpen("localDb", "LocalChatDb", "chatDb", ok)

\* A ConfigRPCServer that closes the start channel and keeps the field.
RunConfigRPCServerKeepsField(ok) ==
    /\ ~crashed
    /\ runPc = "chatDb"
    /\ IF ok
         THEN /\ listener' = "bound"
              /\ socketFile' = "self"
              /\ startCh' = [startCh EXCEPT !.closes = @ + 1]
              /\ runPc' = "hourlyChecks"
              /\ UNCHANGED runErr
         ELSE /\ RunReturns("bind")
              /\ UNCHANGED <<listener, socketFile>>
    /\ UNCHANGED <<pidLock, exitCode, storesOpen,
                   listenPc, listenErr, stopPc, stopCode, crashed>>
    /\ UNCHANGED <<connVars, hookVars, nextInst, sessionVars, delivererVars>>
    /\ UNCHANGED <<versionVars, clientVars, pushVars, waitVars>>

\* ConfigRPCServer: BindToSocket, then the start channel is closed and the
\* field set to nil.
RunConfigRPCServer(ok) ==
    /\ ~crashed
    /\ runPc = "chatDb"
    /\ IF ok
         THEN /\ listener' = "bound"
              /\ socketFile' = "self"
              /\ startCh' = IF startCh.set
                              THEN [set |-> FALSE, closes |-> startCh.closes + 1]
                              ELSE startCh
              /\ runPc' = "hourlyChecks"
              /\ UNCHANGED runErr
         ELSE /\ RunReturns("bind")
              /\ UNCHANGED <<listener, socketFile>>
    /\ UNCHANGED <<pidLock, exitCode, storesOpen,
                   listenPc, listenErr, stopPc, stopCode, crashed>>
    /\ UNCHANGED <<connVars, hookVars, nextInst, sessionVars, delivererVars>>
    /\ UNCHANGED <<versionVars, clientVars, pushVars, waitVars>>

(***************************************************************************)
(* chat.Deliverer: Start and Stop.                                         *)
(***************************************************************************)
\* A Start that begins a delivery loop and resets the bookkeeping on every call.
DelivererStartAlways(u) ==
    /\ dlvIdentity' = u
    /\ dlvLoops' = dlvLoops + 1
    /\ estate' = [e \in DOMAIN estate |->
                     IF estate[e] = "retry" THEN "pending" ELSE estate[e]]
    /\ UNCHANGED <<outbox, econv, attempts>>

\* Deliverer.Start(ctx, uid): a no-op when delivery is already active for uid;
\* otherwise delivery becomes active for uid, with one delivery loop, and the
\* retry bookkeeping of an earlier identity is reset.
DelivererStart(u) ==
    IF dlvIdentity = u
      THEN UNCHANGED <<dlvIdentity, dlvLoops, outbox, estate, econv, attempts>>
      ELSE /\ dlvIdentity' = u
           /\ dlvLoops' = 1
           /\ estate' = [e \in DOMAIN estate |->
                            IF estate[e] = "retry" THEN "pending" ELSE estate[e]]
           /\ UNCHANGED <<outbox, econv, attempts>>

\* A Stop that throws the queued entries away.
DelivererStopDiscards ==
    /\ dlvIdentity' = 0
    /\ dlvLoops' = 0
    /\ outbox' = [c \in DOMAIN outbox |-> <<>>]
    /\ UNCHANGED <<estate, econv, attempts>>

\* Deliverer.Stop(ctx): halts the delivery loop, the queued entries stay.
DelivererStop ==
    /\ dlvIdentity' = 0
    /\ dlvLoops' = 0
    /\ UNCHANGED <<outbox, estate, econv, attempts>>

(***************************************************************************)
(* service.Service: the session components.                                *)
(***************************************************************************)
\* What LoggedInLoad reports to tryGregordConnect.
LoginChecks == {"in", "out", "neterr", "err"}

\* How gregordConnect ends: "nil", or failing in ParseFMPURI or in Connect.
ConnectResults == {"nil", "parse", "connect"}

\* How the background identifier starts: BackgroundIdentifier disabled, a
\* failing StartOrReuseBackgroundIdentifier, or success.
BgiResults == {"disabled", "error", "ok"}

NoBgi == [id |-> 0, uid |-> 0, live |-> FALSE]

\* The handlers Run pushes on the push client.
DefaultHandlers == <<"user", "rekeyLog">>

AllHandlers == <<"user", "rekeyLog", "rekeyMaster">>

\* The push client as its methods find it.
Push ==
    [connected |-> gConnected, connecting |-> gConnecting, retry |-> gRetry,
     sessions |-> gSessions, handlers |-> gHandlers]

\* A push client just made by newGregorHandler.
NewPush ==
    [connected |-> FALSE, connecting |-> FALSE, retry |-> FALSE,
     sessions |-> 0, handlers |-> <<>>]

\* The state of the push client's session.
SessionState(p) ==
    IF p.connected THEN "Connected"
    ELSE IF p.connecting THEN "Connecting"
    ELSE "Disconnected"

\* gregorHandler.PushHandler: the handler is registered after those there are.
PushHandler(p, h) == [p EXCEPT !.handlers = Append(@, h)]

\* A Reset that forgets the registered handlers.
ResetForgetsHandlers(p) ==
    [p EXCEPT !.connected = FALSE, !.connecting = FALSE, !.retry = FALSE,
              !.sessions = 0, !.handlers = <<>>]

\* gregorHandler.Reset: the session state is torn down, the registered
\* handlers stay.
Reset(p) ==
    [p EXCEPT !.connected = FALSE, !.connecting = FALSE, !.retry = FALSE,
              !.sessions = 0]

\* gregorHandler.Shutdown: the session and the connect loop end.
Shutdown(p) ==
    [p EXCEPT !.connected = FALSE, !.connecting = FALSE, !.retry = FALSE,
              !.sessions = 0]

\* gregorHandler.Connect(uri): a connection attempt, joining the one that is
\* outstanding; it ends in a new session, or in a failure the connect loop
\* retries.
Connect(p, how) ==
    IF how = "nil"
      THEN [p EXCEPT !.connected = TRUE, !.connecting = FALSE, !.retry = FALSE,
                     !.sessions = @ + 1]
      ELSE [p EXCEPT !.connected = FALSE, !.connecting = FALSE, !.retry = TRUE]

\* The session states Connect goes through.
ConnectPath(p, how) ==
    (IF SessionState(p) = "Connecting" THEN <<>> ELSE <<"Connecting">>)
      \o <<IF how = "nil" THEN "Connected" ELSE "Disconnected">>

\* A gregordConnect that connects without resetting a connected handler.
gregordConnectNoReset(connected, how) ==
    LET p0 == [Push EXCEPT !.connected = connected]
    IN  IF how = "parse"
          THEN [err |-> "parse", connected |-> connected, trace |-> <<>>,
                push |-> p0, path |-> <<SessionState(p0)>>]
          ELSE [err |-> how,
                connected |-> (how = "nil"),
                trace |-> <<"gregor.Connect">>,
                push |-> Connect(p0, how),
                path |-> <<SessionState(p0)>> \o ConnectPath(p0, how)]

\* gregordConnect on the handler d.gregor, connected or not: the error it
\* returns, whether the handler is connected afterwards, the handler's
\* methods it called, the handler afterwards and the session states it went
\* through.
gregordConnect(connected, how) ==
    LET p0 == [Push EXCEPT !.connected = connected]
    IN  IF how = "parse"
          THEN [err |-> "parse", connected |-> connected, trace |-> <<>>,
                push |-> p0, path |-> <<SessionState(p0)>>]
          ELSE LET p1 == IF connected THEN Reset(p0) ELSE p0
               IN  [err |-> how,
                    connected |-> (how = "nil"),
                    trace |-> (IF connected THEN <<"gregor.Reset">> ELSE <<>>)
                                \o <<"gregor.Connect">>,
                    push |-> Connect(p1, how),
                    path |-> <<SessionState(p0)>>
                               \o (IF connected THEN <<"Disconnected">> ELSE <<>>)
                               \o ConnectPath(p1, how)]

\* The handler's session variables become those of p, reached along path.
SetPush(p, path) ==
    /\ gConnected' = p.connected
    /\ gConnecting' = p.connecting
    /\ gRetry' = p.retry
    /\ gSessions' = p.sessions
    /\ gHandlers' = p.handlers
    /\ gpath' = path

\* A tryGregordConnect that treats the network error like any other error.
tryGregordConnectLoggedInOnly(check) == check = "in"

\* tryGregordConnect: whether LoggedInLoad's answer lets gregordConnect run.
tryGregordConnect(check) == check \in {"in", "neterr"}

\* StartOrReuseBackgroundIdentifier: a live identifier of the same user is
\* reused, otherwise a new one is started.
StartOrReuseBackgroundIdentifier(b, u, id) ==
    IF b.id # 0 /\ b.uid = u /\ b.live
      THEN b
      ELSE [id |-> id, uid |-> u, live |-> TRUE]

\* runBackgroundIdentifierWithUID: the new value of d.backgroundIdentifier.
runBackgroundIdentifierWithUID(u, bg, id) ==
    IF bg = "ok"
      THEN StartOrReuseBackgroundIdentifier(backgroundIdentifier, u, id)
      ELSE backgroundIdentifier

\* OnLogin, with u = d.G().Env.GetUID() not nil. deref: the handler's methods
\* read their receiver, so calling one on the nil d.gregor panics.
OnLogin(u, how, bg, deref) ==
    LET gc == gregordConnect(gConnected, how)
        b  == runBackgroundIdentifierWithUID(u, bg, nextInst)
    IN  IF gregor = 0 /\ deref
          THEN /\ crashed' = TRUE
               /\ oret' = "panic"
               /\ otrace' = <<"rekeyMaster.Login">>
               /\ UNCHANGED <<gConnected, loopVars, gHandlers,
                              backgroundIdentifier, nextInst, delivererVars>>
          ELSE IF gc.err # "nil"
          THEN /\ crashed' = crashed
               /\ IF gregor = 0
                    THEN /\ gConnected' = FALSE
                         /\ UNCHANGED <<loopVars, gHandlers>>
                    ELSE SetPush(gc.push, gc.path)
               /\ oret' = gc.err
               /\ otrace' = <<"rekeyMaster.Login">> \o gc.trace
               /\ UNCHANGED <<backgroundIdentifier, nextInst, delivererVars>>
          ELSE /\ crashed' = crashed
               /\ IF gregor = 0
                    THEN /\ gConnected' = FALSE
                         /\ UNCHANGED <<loopVars, gHandlers>>
                    ELSE SetPush(gc.push, gc.path)
               /\ oret' = "nil"
               /\ otrace' = <<"rekeyMaster.Login">> \o gc.trace
                              \o <<"MessageDeliverer.Start">>
                              \o (IF bg = "disabled" THEN <<>>
                                  ELSE <<"StartOrReuseBackgroundIdentifier">>)
               /\ DelivererStart(u)
               /\ backgroundIdentifier' = b
               /\ nextInst' = IF b # backgroundIdentifier
                                THEN nextInst + 1 ELSE nextInst

\* An OnLogout that returns when there is no push client to shut down.
OnLogoutStopsAtAbsent ==
    /\ IF gregor # 0
         THEN SetPush(Shutdown(Push),
                      IF SessionState(Push) = "Disconnected"
                        THEN <<"Disconnected">>
                        ELSE <<SessionState(Push), "Disconnected">>)
         ELSE /\ gConnected' = FALSE
              /\ UNCHANGED <<loopVars, gHandlers>>
    /\ IF messageDeliverer # 0 /\ gregor # 0
         THEN DelivererStop
         ELSE UNCHANGED delivererVars
    /\ backgroundIdentifier' =
          IF backgroundIdentifier.id # 0 /\ gregor # 0
            THEN [backgroundIdentifier EXCEPT !.live = FALSE]
            ELSE backgroundIdentifier
    /\ otrace' = IF gregor = 0 THEN <<>>
                 ELSE <<"gregor.Shutdown">>
                        \o (IF messageDeliverer # 0
                              THEN <<"messageDeliverer.Stop">> ELSE <<>>)
                        \o <<"rekeyMaster.Logout", "badger.Clear">>
                        \o (IF backgroundIdentifier.id # 0
                              THEN <<"backgroundIdentifier.Logout">> ELSE <<>>)
    /\ oret' = "nil"

\* OnLogout: each component the service holds is stopped, in order; d.badger is
\* set by NewService.
OnLogout ==
    /\ IF gregor # 0
         THEN SetPush(Shutdown(Push),
                      IF SessionState(Push) = "Disconnected"
                        THEN <<"Disconnected">>
                        ELSE <<SessionState(Push), "Disconnected">>)
         ELSE /\ gConnected' = FALSE
              /\ UNCHANGED <<loopVars, gHandlers>>
    /\ IF messageDeliverer # 0
         THEN DelivererStop
         ELSE UNCHANGED delivererVars
    /\ backgroundIdentifier' =
          IF backgroundIdentifier.id # 0
            THEN [backgroundIdentifier EXCEPT !.live = FALSE]
            ELSE backgroundIdentifier
    /\ otrace' = (IF gregor # 0 THEN <<"gregor.Shutdown">> ELSE <<>>)
                   \o (IF messageDeliverer # 0
                         THEN <<"messageDeliverer.Stop">> ELSE <<>>)
                   \o <<"rekeyMaster.Logout", "badger.Clear">>
                   \o (IF backgroundIdentifier.id # 0
                         THEN <<"backgroundIdentifier.Logout">> ELSE <<>>)
    /\ oret' = "nil"

\* The part of Run's state a step of RunBackgroundOperations leaves alone.
runRest == <<pidLock, socketFile, runErr, exitCode, storesOpen, listener,
             startCh, listenPc, listenErr, stopPc, stopCode>>

\* One call of RunBackgroundOperations: Run moves from it to the next one.
BgStep(at, next) ==
    /\ ~crashed
    /\ runPc = at
    /\ runPc' = next
    /\ UNCHANGED <<runRest, connVars, versionVars, clientVars, waitVars>>

\* hourlyChecks: a ticker, stopped by a shutdown hook. createChatSources, which
\* follows, sets up the inbox and conversation sources only.
hourlyChecks ==
    /\ BgStep("hourlyChecks", "createMessageDeliverer")
    /\ hooks' = Append(hooks, [kind |-> "hourly", conn |-> 0])
    /\ UNCHANGED <<crashed, shutdownPc, nextInst, sessionVars, delivererVars>>
    /\ UNCHANGED pushVars

\* createMessageDeliverer: d.G().MessageDeliverer = chat.NewDeliverer(...).
createMessageDeliverer ==
    /\ BgStep("createMessageDeliverer", "startupGregor")
    /\ gMessageDeliverer' = nextInst
    /\ nextInst' = nextInst + 1
    /\ UNCHANGED <<uid, gregor, gConnected, messageDeliverer,
                   backgroundIdentifier, loginHooks, logins, retired, otrace, oret>>
    /\ UNCHANGED <<crashed, hookVars, delivererVars, pushVars>>

\* startupGregor. create = FALSE: gregor is disabled, Tor mode is on or
\* newGregorHandler fails, and d.gregor stays nil.
startupGregor(create, check, how) ==
    /\ BgStep("startupGregor", "startMessageDeliverer")
    /\ IF create
         THEN LET p  == PushHandler(PushHandler(NewPush, "user"), "rekeyLog")
                  gc == gregordConnect(FALSE, how)
              IN  /\ gregor' = nextInst
                  /\ nextInst' = nextInst + 1
                  /\ IF tryGregordConnect(check)
                       THEN /\ SetPush([gc.push EXCEPT !.handlers = p.handlers],
                                       gc.path)
                            /\ strace' = gc.trace
                            /\ sret' = gc.err
                       ELSE /\ SetPush(p, <<SessionState(p)>>)
                            /\ strace' = <<>>
                            /\ sret' = IF check = "out" THEN "nil" ELSE "err"
         ELSE UNCHANGED <<gregor, nextInst, gConnected, loopVars, gHandlers,
                          startupVars>>
    /\ UNCHANGED brokerVars
    /\ UNCHANGED <<uid, gMessageDeliverer, messageDeliverer,
                   backgroundIdentifier, loginHooks, logins, retired, otrace, oret>>
    /\ UNCHANGED <<crashed, hookVars, delivererVars>>

\* startMessageDeliverer.
startMessageDeliverer ==
    /\ BgStep("startMessageDeliverer", "addGlobalHooks")
    /\ IF uid # 0
         THEN DelivererStart(uid)
         ELSE UNCHANGED delivererVars
    /\ UNCHANGED <<crashed, hookVars, nextInst, sessionVars, pushVars>>

\* addGlobalHooks. configurePath, which follows, only extends the PATH.
addGlobalHooks ==
    /\ BgStep("addGlobalHooks", "configureRekey")
    /\ loginHooks' = TRUE
    /\ UNCHANGED <<uid, gregor, gConnected, gMessageDeliverer, messageDeliverer,
                   backgroundIdentifier, logins, retired, otrace, oret>>
    /\ UNCHANGED <<crashed, hookVars, nextInst, delivererVars, pushVars>>

\* configureRekey: d.gregor.PushHandler(rkm), whatever d.gregor is.
configureRekey(deref) ==
    /\ BgStep("configureRekey", "tryLogin")
    /\ crashed' = (gregor = 0 /\ deref)
    /\ gHandlers' = IF gregor # 0
                      THEN PushHandler(Push, "rekeyMaster").handlers
                      ELSE gHandlers
    /\ UNCHANGED <<hookVars, nextInst, sessionVars, delivererVars>>
    /\ UNCHANGED <<loopVars, brokerVars, startupVars>>

\* tryLogin: LoginProvisionedDevice for the configured user; when it succeeds
\* the login hooks run.
tryLogin(ok, how, bg, deref) ==
    /\ BgStep("tryLogin", "runBackgroundIdentifier")
    /\ IF ok /\ uid # 0
         THEN /\ OnLogin(uid, how, bg, deref)
              /\ UNCHANGED <<uid, gregor, gMessageDeliverer, messageDeliverer,
                             loginHooks, logins, retired>>
         ELSE UNCHANGED <<crashed, nextInst, sessionVars, delivererVars,
                          loopVars, gHandlers>>
    /\ UNCHANGED <<hookVars, brokerVars, startupVars>>

\* runBackgroundIdentifier.
runBackgroundIdentifier(bg) ==
    /\ BgStep("runBackgroundIdentifier", "listen")
    /\ IF uid # 0
         THEN LET b == runBackgroundIdentifierWithUID(uid, bg, nextInst)
              IN  /\ backgroundIdentifier' = b
                  /\ nextInst' = IF b # backgroundIdentifier
                                   THEN nextInst + 1 ELSE nextInst
         ELSE UNCHANGED <<backgroundIdentifier, nextInst>>
    /\ UNCHANGED <<uid, gregor, gConnected, gMessageDeliverer, messageDeliverer,
                   loginHooks, logins, retired, otrace, oret>>
    /\ UNCHANGED <<crashed, hookVars, delivererVars, pushVars>>

\* The instances serving the logged-in identity.
InUse ==
    (IF gregor # 0 /\ gConnected THEN {gregor} ELSE {})
      \cup (IF gMessageDeliverer # 0 /\ dlvIdentity # 0
              THEN {gMessageDeliverer} ELSE {})

\* A login of identity u while the daemon serves: the login hooks run.
Login(u, how, bg, deref) ==
    /\ ~crashed
    /\ runPc = "stopCh"
    /\ loginHooks
    /\ uid = 0
    /\ logins < MaxLogins
    /\ uid' = u
    /\ logins' = logins + 1
    /\ OnLogin(u, how, bg, deref)
    /\ UNCHANGED <<gregor, gMessageDeliverer, messageDeliverer, loginHooks, retired>>
    /\ UNCHANGED <<brokerVars, startupVars, waitVars>>
    /\ UNCHANGED <<runPc, runRest, connVars, hookVars, versionVars, clientVars>>

\* A logout while the daemon serves: the logout hooks run.
Logout ==
    /\ ~crashed
    /\ runPc = "stopCh"
    /\ loginHooks
    /\ uid # 0
    /\ uid' = 0
    /\ retired' = retired \cup InUse
    /\ OnLogout
    /\ UNCHANGED <<gregor, gMessageDeliverer, messageDeliverer, loginHooks, logins>>
    /\ UNCHANGED <<brokerVars, startupVars, waitVars>>
    /\ UNCHANGED <<runVars, connVars, hookVars, nextInst, versionVars, clientVars>>

(***************************************************************************)
(* service.Service: the listen loop, Stop and the connections.             *)
(***************************************************************************)
\* ListenLoopWithStopper up to the receive from d.stopCh: the accept loop
\* runs in a goroutine of its own.
RunListenLoopWithStopper ==
    /\ ~crashed
    /\ runPc = "listen"
    /\ runPc' = "stopCh"
    /\ listenPc' = "accepting"
    /\ UNCHANGED <<pidLock, socketFile, runErr, exitCode, storesOpen, listener,
                   startCh, listenErr, stopPc, stopCode, crashed>>
    /\ UNCHANGED <<connVars, hookVars, nextInst, sessionVars, delivererVars>>
    /\ UNCHANGED <<versionVars, clientVars, pushVars, waitVars>>

\* Stop(exitCode): the send on d.stopCh begins.
Stop(s, code) ==
    /\ ~crashed
    /\ stopPc[s] = "idle"
    /\ stopPc' = [stopPc EXCEPT ![s] = "sending"]
    /\ stopCode' = [stopCode EXCEPT ![s] = code]
    /\ UNCHANGED <<pidLock, socketFile, runPc, runErr, exitCode, storesOpen,
                   listener, startCh, listenPc, listenErr, crashed>>
    /\ UNCHANGED <<connVars, hookVars, nextInst, sessionVars, delivererVars>>
    /\ UNCHANGED <<versionVars, clientVars, pushVars, waitVars>>

\* ListenLoopWithStopper receives the exit code and closes the listener.
RunStopped ==
    /\ ~crashed
    /\ runPc = "stopCh"
    /\ \E s \in Stoppers :
          /\ stopPc[s] = "sending"
          /\ stopPc' = [stopPc EXCEPT ![s] = "sent"]
    /\ listener' = "closed"
    /\ runPc' = "ch"
    /\ UNCHANGED <<pidLock, socketFile, runErr, exitCode, storesOpen,
                   startCh, listenPc, listenErr, stopCode, crashed>>
    /\ UNCHANGED <<connVars, hookVars, nextInst, sessionVars, delivererVars>>
    /\ UNCHANGED <<versionVars, clientVars, pushVars, waitVars>>

\* ListenLoopWithStopper receives ListenLoop's error and Run returns it.
RunReturn ==
    /\ ~crashed
    /\ runPc = "ch"
    /\ listenPc = "left"
    /\ listenPc' = "done"
    /\ exitCode' = stopCode[CHOOSE s \in Stoppers : stopPc[s] = "sent"]
    /\ RunReturns(listenErr)
    /\ UNCHANGED <<pidLock, socketFile, storesOpen, listener,
                   listenErr, stopPc, stopCode, crashed>>
    /\ UNCHANGED <<connVars, hookVars, nextInst, sessionVars, delivererVars>>
    /\ UNCHANGED <<versionVars, clientVars, pushVars, waitVars>>

\* ListenLoop: l.Accept() returns connection c, go d.Handle(c).
ListenLoopAccept(c) ==
    /\ ~crashed
    /\ listenPc = "accepting"
    /\ listener = "bound"
    /\ hpc[c] = "none"
    /\ \A b \in Conns : b < c => hpc[b] # "none"
    /\ hpc' = [hpc EXCEPT ![c] = "spawned"]
    /\ UNCHANGED <<xp, server, cl, shutdownOnce, teardowns, inflight>>
    /\ UNCHANGED <<runVars, hookVars, nextInst, sessionVars, delivererVars>>
    /\ UNCHANGED <<versionVars, clientVars, pushVars, waitVars>>

\* ListenLoop: l.Accept() fails and the loop is left; the error of a closed
\* socket becomes nil.
ListenLoopLeave(err) ==
    /\ ~crashed
    /\ listenPc = "accepting"
    /\ err = IF listener = "closed" THEN "nil" ELSE "accept"
    /\ listenPc' = "left"
    /\ listenErr' = err
    /\ UNCHANGED <<pidLock, socketFile, runPc, runErr, exitCode, storesOpen,
                   listener, startCh, stopPc, stopCode, crashed>>
    /\ UNCHANGED <<connVars, hookVars, nextInst, sessionVars, delivererVars>>
    /\ UNCHANGED <<versionVars, clientVars, pushVars, waitVars>>

\* A shutdown closure that is not guarded by the sync.Once.
shutdownUnguarded(c) ==
    /\ shutdownOnce' = [shutdownOnce EXCEPT ![c] = TRUE]
    /\ teardowns' = [teardowns EXCEPT ![c] = @ + 1]

\* The closure shutdown of Handle(c): shutdownOnce.Do runs the loop over the
\* shutdowners the first time only.
shutdown(c) ==
    /\ shutdownOnce' = [shutdownOnce EXCEPT ![c] = TRUE]
    /\ teardowns' = [teardowns EXCEPT ![c] = IF shutdownOnce[c] THEN @ ELSE @ + 1]

\* A Handle that runs every connection on one rpc.Server.
HandleSharesServer(c, ok) ==
    /\ ~crashed
    /\ hpc[c] = "spawned"
    /\ xp' = [xp EXCEPT ![c] = nextInst]
    /\ server' = [server EXCEPT ![c] = 1]
    /\ nextInst' = nextInst + 2
    /\ hooks' = Append(hooks, [kind |-> "conn", conn |-> c])
    /\ hpc' = [hpc EXCEPT ![c] = IF ok THEN "running" ELSE "closing"]
    /\ UNCHANGED <<cl, shutdownOnce, teardowns, inflight>>
    /\ UNCHANGED <<runVars, shutdownPc, sessionVars, delivererVars>>
    /\ UNCHANGED <<versionVars, clientVars, pushVars, waitVars>>

\* Handle(c) up to server.Run: a transport and a server of its own,
\* AddConnection, RegisterProtocols (ok = FALSE: it fails), the deferred
\* shutdown and the shutdown hook; on the error Handle returns.
Handle(c, ok) ==
    /\ ~crashed
    /\ hpc[c] = "spawned"
    /\ xp' = [xp EXCEPT ![c] = nextInst]
    /\ server' = [server EXCEPT ![c] = nextInst + 1]
    /\ nextInst' = nextInst + 2
    /\ hooks' = Append(hooks, [kind |-> "conn", conn |-> c])
    /\ hpc' = [hpc EXCEPT ![c] = IF ok THEN "running" ELSE "closing"]
    /\ UNCHANGED <<cl, shutdownOnce, teardowns, inflight>>
    /\ UNCHANGED <<runVars, shutdownPc, sessionVars, delivererVars>>
    /\ UNCHANGED <<versionVars, clientVars, pushVars, waitVars>>

\* The connections served by the server of connection c.
ServedBy(c) == {b \in Conns : server[b] = server[c] /\ hpc[b] = "running"}

\* A server end that also closes the listener.
HandleServerDoneStopsListening(c, err) ==
    /\ ~crashed
    /\ hpc[c] = "running"
    /\ hpc' = [b \in Conns |-> IF b \in ServedBy(c) THEN "closing" ELSE hpc[b]]
    /\ cl' = [b \in Conns |-> IF b \in ServedBy(c) THEN <<err>> ELSE cl[b]]
    /\ inflight' = [b \in Conns |-> IF b \in ServedBy(c) THEN FALSE ELSE inflight[b]]
    /\ listener' = "closed"
    /\ UNCHANGED <<xp, server, shutdownOnce, teardowns>>
    /\ UNCHANGED <<pidLock, socketFile, runPc, runErr, exitCode, storesOpen,
                   startCh, listenPc, listenErr, stopPc, stopCode, crashed>>
    /\ UNCHANGED <<hookVars, nextInst, sessionVars, delivererVars>>
    /\ UNCHANGED <<versionVars, clientVars, pushVars, waitVars>>

\* Handle(c) after server.Run: the server of connection c has ended with err
\* (io.EOF when the client went away), the calls it was serving are cut off,
\* err goes to the channel given to AddConnection and Handle returns.
HandleServerDone(c, err) ==
    /\ ~crashed
    /\ hpc[c] = "running"
    /\ hpc' = [b \in Conns |-> IF b \in ServedBy(c) THEN "closing" ELSE hpc[b]]
    /\ cl' = [b \in Conns |-> IF b \in ServedBy(c) THEN <<err>> ELSE cl[b]]
    /\ inflight' = [b \in Conns |-> IF b \in ServedBy(c) THEN FALSE ELSE inflight[b]]
    /\ UNCHANGED <<xp, server, shutdownOnce, teardowns>>
    /\ UNCHANGED <<runVars, hookVars, nextInst, sessionVars, delivererVars>>
    /\ UNCHANGED <<versionVars, clientVars, pushVars, waitVars>>

\* Handle(c) returns: the deferred shutdown() runs.
HandleReturn(c) ==
    /\ ~crashed
    /\ hpc[c] = "closing"
    /\ hpc' = [hpc EXCEPT ![c] = "returned"]
    /\ shutdown(c)
    /\ UNCHANGED <<xp, server, cl, inflight>>
    /\ UNCHANGED <<runVars, hookVars, nextInst, sessionVars, delivererVars>>
    /\ UNCHANGED <<versionVars, clientVars, pushVars, waitVars>>

\* The server of connection c starts serving a call.
ServerCall(c) ==
    /\ ~crashed
    /\ hpc[c] = "running"
    /\ ~inflight[c]
    /\ inflight' = [inflight EXCEPT ![c] = TRUE]
    /\ UNCHANGED <<hpc, xp, server, cl, shutdownOnce, teardowns>>
    /\ UNCHANGED <<runVars, hookVars, nextInst, sessionVars, delivererVars>>
    /\ UNCHANGED <<versionVars, clientVars, pushVars, waitVars>>

\* The server of connection c answers the call it is serving.
ServerReply(c) ==
    /\ ~crashed
    /\ hpc[c] = "running"
    /\ inflight[c]
    /\ inflight' = [inflight EXCEPT ![c] = FALSE]
    /\ UNCHANGED <<hpc, xp, server, cl, shutdownOnce, teardowns>>
    /\ UNCHANGED <<runVars, hookVars, nextInst, sessionVars, delivererVars>>
    /\ UNCHANGED <<versionVars, clientVars, pushVars, waitVars>>

\* d.G().Shutdown() begins: the daemon is asked to shut down while it serves.
GlobalShutdown ==
    /\ ~crashed
    /\ shutdownPc = -1
    /\ runPc \in {"stopCh", "ch", "returned"}
    /\ shutdownPc' = 0
    /\ UNCHANGED <<runVars, connVars, hooks, nextInst, sessionVars, delivererVars>>
    /\ UNCHANGED <<versionVars, clientVars, pushVars, waitVars>>

\* d.G().Shutdown() runs the next shutdown hook: ReleaseLock, the ticker's
\* stop, or the shutdown closure of a connection.
RunShutdownHook ==
    /\ ~crashed
    /\ shutdownPc >= 0
    /\ shutdownPc < Len(hooks)
    /\ shutdownPc' = shutdownPc + 1
    /\ LET h == hooks[shutdownPc + 1]
       IN  /\ IF h.kind = "conn"
                THEN shutdown(h.conn)
                ELSE UNCHANGED <<shutdownOnce, teardowns>>
           /\ pidLock' = IF h.kind = "lock" /\ pidLock = "self"
                           THEN "free" ELSE pidLock
    /\ UNCHANGED <<socketFile, runPc, runErr, exitCode, storesOpen, listener,
                   startCh, listenPc, listenErr, stopPc, stopCode, crashed>>
    /\ UNCHANGED <<hpc, xp, server, cl, inflight>>
    /\ UNCHANGED <<hooks, nextInst, sessionVars, delivererVars>>
    /\ UNCHANGED <<versionVars, clientVars, pushVars, waitVars>>

(***************************************************************************)
(* chat.Deliverer: the outbox and the delivery loop.                       *)
(***************************************************************************)
Convs == {1, 2}

\* Entries are numbered in the order they are enqueued.
Entries == 1..MaxEntries

\* How one delivery attempt ends.
Outcomes == {"sent", "transient", "permanent"}

\* The next entry to be enqueued.
NextEntry == Cardinality({e \in Entries : estate[e] # "none"}) + 1

\* An entry is queued for conversation c; the queue is durable and fills
\* whether or not delivery is active.
Enqueue(c) ==
    /\ NextEntry \in Entries
    /\ estate' = [estate EXCEPT ![NextEntry] = "pending"]
    /\ econv' = [econv EXCEPT ![NextEntry] = c]
    /\ outbox' = [outbox EXCEPT ![c] = Append(@, NextEntry)]
    /\ UNCHANGED <<dlvIdentity, dlvLoops, attempts>>
    /\ UNCHANGED <<serviceVars, versionVars, clientVars, pushVars, waitVars>>

\* The first entry of conversation c the loop may attempt, were entries
\* waiting for a retry passed over.
FirstNotRetrying(c) ==
    LET i == CHOOSE i \in 1..Len(outbox[c]) :
                 /\ estate[outbox[c][i]] # "retry"
                 /\ \A j \in 1..(i - 1) : estate[outbox[c][j]] = "retry"
    IN  outbox[c][i]

\* A delivery loop that passes over an entry waiting for its retry.
AttemptPassesRetry(c, outcome) ==
    /\ dlvIdentity # 0
    /\ \E i \in 1..Len(outbox[c]) : estate[outbox[c][i]] # "retry"
    /\ Len(attempts) < MaxAttempts
    /\ LET e == FirstNotRetrying(c)
       IN  /\ attempts' = Append(attempts, e)
           /\ estate' = [estate EXCEPT ![e] =
                            CASE outcome = "sent" -> "sent"
                              [] outcome = "transient" -> "retry"
                              [] OTHER -> "failed"]
           /\ outbox' = [outbox EXCEPT ![c] =
                            IF outcome = "transient" THEN @
                            ELSE SelectSeq(@, LAMBDA x : x # e)]
    /\ UNCHANGED <<dlvIdentity, dlvLoops, econv>>
    /\ UNCHANGED <<serviceVars, versionVars, clientVars, pushVars, waitVars>>

\* The delivery loop attempts the oldest unresolved entry of conversation c:
\* sent and permanently failed entries leave the queue, a transient failure
\* keeps the entry at the head for its retry.
Attempt(c, outcome) ==
    /\ dlvIdentity # 0
    /\ outbox[c] # <<>>
    /\ Len(attempts) < MaxAttempts
    /\ LET e == Head(outbox[c])
       IN  /\ attempts' = Append(attempts, e)
           /\ estate' = [estate EXCEPT ![e] =
                            CASE outcome = "sent" -> "sent"
                              [] outcome = "transient" -> "retry"
                              [] OTHER -> "failed"]
           /\ outbox' = [outbox EXCEPT ![c] =
                            IF outcome = "transient" THEN @ ELSE Tail(@)]
    /\ UNCHANGED <<dlvIdentity, dlvLoops, econv>>
    /\ UNCHANGED <<serviceVars, versionVars, clientVars, pushVars, waitVars>>

\* Start(ctx, u) is called on the deliverer.
StartCall(u) ==
    /\ DelivererStart(u)
    /\ UNCHANGED <<serviceVars, versionVars, clientVars, pushVars, waitVars>>

\* Stop(ctx) is called on the deliverer.
StopCall ==
    /\ dlvIdentity # 0
    /\ DelivererStop
    /\ UNCHANGED <<serviceVars, versionVars, clientVars, pushVars, waitVars>>

(***************************************************************************)
(* The push client's connect loop, the broker and GregorDismiss.           *)
(***************************************************************************)
Items == 1..MaxItems

\* What a step on the push client leaves alone of the session.
sessionRest == <<uid, gregor, gMessageDeliverer, messageDeliverer,
                 backgroundIdentifier, loginHooks, logins, retired, otrace, oret>>

\* What a step of the push client, the broker or a waiter leaves alone.
daemonRest == <<runVars, connVars, hookVars, nextInst, sessionRest,
                delivererVars, versionVars, clientVars>>

\* The session with the broker breaks; the connect loop will retry.
ConnectionLost ==
    /\ ~crashed
    /\ gregor # 0
    /\ gConnected
    /\ SetPush([Push EXCEPT !.connected = FALSE, !.sessions = 0, !.retry = TRUE],
               <<"Connected", "Disconnected">>)
    /\ UNCHANGED <<brokerVars, startupVars, waitVars, daemonRest>>

\* The connect loop begins its next attempt.
ReconnectBegin ==
    /\ ~crashed
    /\ gregor # 0
    /\ SessionState(Push) = "Disconnected"
    /\ gRetry
    /\ SetPush([Push EXCEPT !.connecting = TRUE], <<"Disconnected", "Connecting">>)
    /\ UNCHANGED <<brokerVars, startupVars, waitVars, daemonRest>>

\* The attempt of the connect loop ends, in a session or in another failure.
ReconnectEnd(ok) ==
    /\ ~crashed
    /\ gregor # 0
    /\ SessionState(Push) = "Connecting"
    /\ SetPush(Connect(Push, IF ok THEN "nil" ELSE "connect"),
               <<"Connecting">> \o ConnectPath(Push, IF ok THEN "nil" ELSE "connect"))
    /\ UNCHANGED <<brokerVars, startupVars, waitVars, daemonRest>>

\* The broker pushes a new item over the live session, the items numbered in
\* the order they are made: the push client hands it to every registered
\* handler.
BrokerPush(id) ==
    /\ ~crashed
    /\ gregor # 0
    /\ gConnected
    /\ id = lastDelivery.id + 1
    /\ id \notin items \cup dismissedIds
    /\ items' = items \cup {id}
    /\ lastDelivery' = [id |-> id, to |-> gHandlers, login |-> logins]
    /\ UNCHANGED <<dismissedIds, dlast, gcall>>
    /\ UNCHANGED <<gConnected, loopVars, gHandlers, startupVars, waitVars, daemonRest>>

\* A DismissItem that fails for an item that is not there.
DismissItemOnce(id) ==
    [items |-> items \ {id},
     ret |-> IF id \in items THEN "nil" ELSE "not found"]

\* gregorHandler.DismissItem(id): the item leaves the broker's state; an item
\* that is not there is no error.
DismissItem(id) == [items |-> items \ {id}, ret |-> "nil"]

\* Service.GregorDismiss(id).
GregorDismiss(id) ==
    /\ ~crashed
    /\ runPc = "stopCh"
    /\ IF gregor = 0
         THEN /\ dlast' = [id |-> id, again |-> id \in dismissedIds,
                           ret |-> "no gregor"]
              /\ UNCHANGED <<items, dismissedIds>>
         ELSE LET r == DismissItem(id)
              IN  /\ items' = r.items
                  /\ dismissedIds' = dismissedIds \cup {id}
                  /\ dlast' = [id |-> id, again |-> id \in dismissedIds,
                               ret |-> r.ret]
    /\ UNCHANGED <<lastDelivery, gcall>>
    /\ UNCHANGED <<gConnected, loopVars, gHandlers, startupVars, waitVars, daemonRest>>

\* gregorHandler.InjectItem: the broker makes and stores the next item and
\* pushes it; without a session the call fails.
InjectItem(id) ==
    IF gConnected /\ id = lastDelivery.id + 1 /\ id \in Items
      THEN [ret |-> "nil", items |-> items \cup {id},
            delivery |-> [id |-> id, to |-> gHandlers, login |-> logins]]
      ELSE [ret |-> "error", items |-> items, delivery |-> lastDelivery]

\* Service.GregorInject(cat, body).
GregorInject ==
    /\ ~crashed
    /\ runPc = "stopCh"
    /\ IF gregor = 0
         THEN /\ gcall' = [op |-> "GregorInject", ret |-> "no gregor"]
              /\ UNCHANGED <<items, lastDelivery>>
         ELSE LET r == InjectItem(lastDelivery.id + 1)
              IN  /\ gcall' = [op |-> "GregorInject", ret |-> r.ret]
                  /\ items' = r.items
                  /\ lastDelivery' = r.delivery
    /\ UNCHANGED <<dismissedIds, dlast>>
    /\ UNCHANGED <<gConnected, loopVars, gHandlers, startupVars, waitVars, daemonRest>>

\* Service.GregorInjectOutOfBandMessage(sys, body); InjectOutOfBandMessage
\* needs a session.
GregorInjectOutOfBandMessage ==
    /\ ~crashed
    /\ runPc = "stopCh"
    /\ gcall' = [op |-> "GregorInjectOutOfBandMessage",
                 ret |-> IF gregor = 0 THEN "no gregor"
                         ELSE IF gConnected THEN "nil" ELSE "error"]
    /\ UNCHANGED <<items, dismissedIds, dlast, lastDelivery>>
    /\ UNCHANGED <<gConnected, loopVars, gHandlers, startupVars, waitVars, daemonRest>>

\* Service.HasGregor().
HasGregor ==
    /\ ~crashed
    /\ runPc = "stopCh"
    /\ gcall' = [op |-> "HasGregor",
                 ret |-> IF gregor # 0 /\ gConnected THEN "true" ELSE "false"]
    /\ UNCHANGED <<items, dismissedIds, dlast, lastDelivery>>
    /\ UNCHANGED <<gConnected, loopVars, gHandlers, startupVars, waitVars, daemonRest>>

\* A chatRemoteClient that tests d.gregor before it reads the field cli.
chatRemoteClientGuarded ==
    /\ ~crashed
    /\ runPc = "stopCh"
    /\ gcall' = [op |-> "chatRemoteClient",
                 ret |-> IF gregor # 0 /\ gConnected THEN "client"
                         ELSE "errorClient"]
    /\ UNCHANGED <<items, dismissedIds, dlast, lastDelivery>>
    /\ UNCHANGED <<gConnected, loopVars, gHandlers, startupVars, waitVars, daemonRest>>

\* Service.chatRemoteClient(), called by the chat sources and the sender: it
\* reads d.gregor.cli, the client of the session, whatever d.gregor is.
chatRemoteClient ==
    /\ ~crashed
    /\ runPc = "stopCh"
    /\ crashed' = (gregor = 0)
    /\ gcall' = [op |-> "chatRemoteClient",
                 ret |-> IF gregor = 0 THEN "panic"
                         ELSE IF gConnected THEN "client" ELSE "errorClient"]
    /\ UNCHANGED <<items, dismissedIds, dlast, lastDelivery>>
    /\ UNCHANGED <<gConnected, loopVars, gHandlers, startupVars, waitVars>>
    /\ UNCHANGED <<pidLock, socketFile, runPc, runErr, exitCode, storesOpen,
                   listener, startCh, listenPc, listenErr, stopPc, stopCode>>
    /\ UNCHANGED <<connVars, hookVars, nextInst, sessionRest, delivererVars,
                   versionVars, clientVars>>

(***************************************************************************)
(* The tasks waiting for the start notification.                           *)
(***************************************************************************)
Waiters == 1..NumWaiters

\* GetStartChannel: the caller gets d.startCh as it is now and waits on it.
GetStartChannel(w) ==
    /\ wpc[w] = "idle"
    /\ wch' = [wch EXCEPT ![w] = IF startCh.set THEN "chan" ELSE "nil"]
    /\ wpc' = [wpc EXCEPT ![w] = "waiting"]
    /\ UNCHANGED <<gConnected, pushVars, daemonRest>>

\* The receive from a closed channel returns; on a nil channel it never does.
WaiterReleased(w) ==
    /\ wpc[w] = "waiting"
    /\ wch[w] = "chan"
    /\ startCh.closes > 0
    /\ wpc' = [wpc EXCEPT ![w] = "released"]
    /\ UNCHANGED <<wch, gConnected, pushVars, daemonRest>>

\* newGregorHandler has not run; the broker holds no item.
PushNew ==
    /\ gConnecting = FALSE /\ gRetry = FALSE /\ gSessions = 0
    /\ gpath = <<"Disconnected">>
    /\ gHandlers = <<>>
    /\ items = {} /\ dismissedIds = {}
    /\ dlast = [id |-> 0, again |-> FALSE, ret |-> "nil"]
    /\ lastDelivery = [id |-> 0, to |-> <<>>, login |-> 0]
    /\ gcall = [op |-> "none", ret |-> "none"]
    /\ strace = <<>> /\ sret = "none"

\* Nobody has asked for the start channel.
WaitersIdle ==
    /\ wpc = [w \in Waiters |-> "idle"]
    /\ wch = [w \in Waiters |-> "none"]

\* NewService, before Run: nothing is opened, bound, accepted or created.
ServiceNew ==
    /\ runPc = "start" /\ runErr = "nil" /\ exitCode = 0
    /\ storesOpen = {} /\ listener = "none"
    /\ startCh = [set |-> TRUE, closes |-> 0]
    /\ listenPc = "none" /\ listenErr = "nil"
    /\ stopPc = [s \in Stoppers |-> "idle"]
    /\ stopCode = [s \in Stoppers |-> 0]
    /\ crashed = FALSE
    /\ hpc = [c \in Conns |-> "none"]
    /\ xp = [c \in Conns |-> 0]
    /\ server = [c \in Conns |-> 0]
    /\ cl = [c \in Conns |-> <<>>]
    /\ shutdownOnce = [c \in Conns |-> FALSE]
    /\ teardowns = [c \in Conns |-> 0]
    /\ inflight = [c \in Conns |-> FALSE]
    /\ nextInst = 1
    /\ hooks = <<>> /\ shutdownPc = -1
    /\ gregor = 0 /\ gConnected = FALSE
    /\ gMessageDeliverer = 0 /\ messageDeliverer = 0
    /\ backgroundIdentifier = NoBgi
    /\ loginHooks = FALSE /\ logins = 0 /\ retired = {}
    /\ otrace = <<>> /\ oret = "nil"
    /\ PushNew
    /\ WaitersIdle

\* A deliverer that was never started, with an empty outbox.
DelivererNew ==
    /\ dlvIdentity = 0 /\ dlvLoops = 0
    /\ outbox = [c \in Convs |-> <<>>]
    /\ estate = [e \in Entries |-> "none"]
    /\ econv = [e \in Entries |-> 0]
    /\ attempts = <<>>

\* A deliverer that was never started, with two entries of conversation 1 left
\* in the outbox by an earlier run.
DelivererLeftOver ==
    /\ dlvIdentity = 0 /\ dlvLoops = 0
    /\ outbox = [c \in Convs |-> IF c = 1 THEN <<1, 2>> ELSE <<>>]
    /\ estate = [e \in Entries |-> IF e \in {1, 2} THEN "pending" ELSE "none"]
    /\ econv = [e \in Entries |-> IF e \in {1, 2} THEN 1 ELSE 0]
    /\ attempts = <<>>

\* The daemon while only the version cache or the client runs.
DaemonQuiet ==
    /\ pidLock = "free" /\ socketFile = "none" /\ uid = 0
    /\ ServiceNew
    /\ DelivererNew

(***************************************************************************)
(* Initial states and specifications.                                      *)
(***************************************************************************)
\* No call has been made yet.
CallersIdle ==
    /\ xpOpen = TRUE
    /\ receiving = FALSE
    /\ nextSeq = 1
    /\ wire = {} /\ replies = {} /\ calls = {}
    /\ cpc = [c \in Callers |-> "idle"]
    /\ cop = [c \in Callers |-> "none"]
    /\ cseq = [c \in Callers |-> 0]
    /\ cctx = [c \in Callers |-> NilCtx]
    /\ handed = [c \in Callers |-> NoTags]
    /\ given = [c \in Callers |-> "nil"]
    /\ cret = [c \in Callers |-> [res |-> NoRes, err |-> NilErr]]
    /\ ctrace = [c \in Callers |-> <<>>]

\* The client while only the version cache runs.
ClientQuiet == errorUnwrapper = "nil" /\ tagsFunc = "nil" /\ CallersIdle

\* The version cache while only the client runs.
VersionsQuiet ==
    /\ cached = <<>> /\ db = <<>> /\ fault = "none" /\ versionLock = 0
    /\ vpc = [p \in Procs |-> "idle"]
    /\ vop = [p \in Procs |-> "none"]
    /\ mvers = [p \in Procs |-> 0]
    /\ svers = [p \in Procs |-> ZeroVers]
    /\ vres = [p \in Procs |-> [vers |-> ZeroVers, err |-> NoErr]]

\* NewClient(xp, u, tagsFunc) on a connected transport: with or without an
\* ErrorUnwrapper, with a LogTagsFromContext.
InitClient ==
    /\ errorUnwrapper \in {"nil", "unwrapper"}
    /\ tagsFunc = "func"
    /\ CallersIdle
    /\ VersionsQuiet
    /\ DaemonQuiet

\* NewClient(xp, u, tagsFunc): with or without a LogTagsFromContext.
InitTags ==
    /\ errorUnwrapper = "unwrapper"
    /\ tagsFunc \in {"nil", "func"}
    /\ CallersIdle
    /\ VersionsQuiet
    /\ DaemonQuiet

NextClient ==
    \/ \E c \in Callers, ctx \in CtxKinds : Call(c, ctx)
    \/ \E c \in Callers, ctx \in CtxKinds : Notify(c, ctx)
    \/ Serve
    \/ ServeNotify
    \/ Deliver
    \/ \E c \in Callers : Cancel(c)
    \/ Close

SpecClient == InitClient /\ [][NextClient]_vars

\* The callers only make calls.
NextCalls ==
    \/ \E c \in Callers, ctx \in CtxKinds : Call(c, ctx)
    \/ Serve
    \/ Deliver
    \/ \E c \in Callers : Cancel(c)
    \/ Close

\* The remote side answers the call frames it has received, and the receive
\* loop started by receiveFrames keeps reading the responses that arrive.
SpecCallsFair ==
    InitClient /\ [][NextCalls]_vars /\ WF_vars(Serve) /\ WF_vars(Deliver)

\* One caller, calling with every context of the model.
NextTags ==
    \/ \E ctx \in Ctxs : Call(1, ctx)
    \/ Serve
    \/ Deliver
    \/ Cancel(1)
    \/ Close

SpecTags == InitTags /\ [][NextTags]_vars

\* NewServerVersions: no memory copy; the store holds whatever an earlier run left.
InitVersions ==
    /\ cached = <<>>
    /\ db \in {<<>>, <<CorruptRaw>>} \cup {<<encode(v)>> : v \in ServerCacheVers}
    /\ fault = "none"
    /\ versionLock = 0
    /\ vpc = [p \in Procs |-> "idle"]
    /\ vop = [p \in Procs |-> "none"]
    /\ mvers = [p \in Procs |-> 0]
    /\ svers = [p \in Procs |-> ZeroVers]
    /\ vres = [p \in Procs |-> [vers |-> ZeroVers, err |-> NoErr]]
    /\ ClientQuiet
    /\ DaemonQuiet

NextVersions ==
    \/ \E p \in Procs : FetchLock(p)
    \/ \E p \in Procs : Fetch(p)
    \/ \E p \in Procs : MatchInboxLock(p)
    \/ \E p \in Procs : MatchInbox(p)
    \/ \E p \in Procs : MatchBodiesLock(p)
    \/ \E p \in Procs : MatchBodies(p)
    \/ \E p \in Procs : SyncLock(p)
    \/ \E p \in Procs : SyncMem(p)
    \/ \E p \in Procs : SyncPut(p)
    \/ \E p \in Procs : Return(p)
    \/ SetFault

SpecVersions == InitVersions /\ [][NextVersions]_vars

\* The machine the daemon starts on: another instance may be running (it holds
\* the lock and may have bound its socket), or an earlier one may have left a
\* stale socket file.
ServiceEnv ==
    /\ pidLock \in {"free", "other"}
    /\ socketFile \in (IF pidLock = "other" THEN {"none", "other"}
                                           ELSE {"none", "stale"})

\* A user is configured.
InitService ==
    /\ ServiceEnv
    /\ uid = 1
    /\ ServiceNew
    /\ DelivererNew
    /\ VersionsQuiet
    /\ ClientQuiet

\* Run up to the bound endpoint.
NextStartup ==
    \/ \E ok \in BOOLEAN : RunWriteServiceInfo(ok)
    \/ \E ok \in BOOLEAN : RunGetExclusiveLock(ok)
    \/ \E ok \in BOOLEAN : RunCleanupSocketFile(ok)
    \/ \E ok \in BOOLEAN : RunForceOpenLocalDb(ok)
    \/ \E ok \in BOOLEAN : RunForceOpenLocalChatDb(ok)
    \/ \E ok \in BOOLEAN : RunConfigRPCServer(ok)

\* The daemon and its connections; the push client is created and connected
\* at startup and nobody logs in or out.
NextService ==
    \/ NextStartup
    \/ hourlyChecks
    \/ createMessageDeliverer
    \/ startupGregor(TRUE, "in", "nil")
    \/ startMessageDeliverer
    \/ addGlobalHooks
    \/ configureRekey(TRUE)
    \/ tryLogin(FALSE, "nil", "ok", TRUE)
    \/ runBackgroundIdentifier("ok")
    \/ RunListenLoopWithStopper
    \/ Stop(1, 2)
    \/ RunStopped
    \/ RunReturn
    \/ \E c \in Conns : ListenLoopAccept(c)
    \/ \E err \in {"nil", "accept"} : ListenLoopLeave(err)
    \/ \E c \in Conns, ok \in BOOLEAN : Handle(c, ok)
    \/ \E c \in Conns, err \in {"EOF", "error"} : HandleServerDone(c, err)
    \/ \E c \in Conns : HandleReturn(c)
    \/ \E c \in Conns : ServerCall(c)
    \/ \E c \in Conns : ServerReply(c)
    \/ GlobalShutdown
    \/ RunShutdownHook

SpecService == InitService /\ [][NextService]_vars

\* A user may be configured, and an earlier run may have left entries in the
\* outbox.
InitSession ==
    /\ ServiceEnv
    /\ uid \in {0, 1}
    /\ ServiceNew
    /\ DelivererNew \/ DelivererLeftOver
    /\ VersionsQuiet
    /\ ClientQuiet

\* The daemon and its session components over logins and logouts, with no
\* connection accepted; the delivery loop meets transient failures.
NextSession ==
    \/ NextStartup
    \/ hourlyChecks
    \/ createMessageDeliverer
    \/ \E create \in BOOLEAN, check \in LoginChecks, how \in ConnectResults :
          startupGregor(create, check, how)
    \/ startMessageDeliverer
    \/ addGlobalHooks
    \/ \E deref \in BOOLEAN : configureRekey(deref)
    \/ \E ok, deref \in BOOLEAN, how \in ConnectResults, bg \in BgiResults :
          tryLogin(ok, how, bg, deref)
    \/ \E bg \in BgiResults : runBackgroundIdentifier(bg)
    \/ RunListenLoopWithStopper
    \/ \E u \in Uids, how \in ConnectResults, bg \in BgiResults, deref \in BOOLEAN :
          Login(u, how, bg, deref)
    \/ Logout
    \/ \E c \in Convs : Attempt(c, "transient")

SpecSession == InitSession /\ [][NextSession]_vars

InitDeliverer ==
    /\ DaemonQuiet
    /\ VersionsQuiet
    /\ ClientQuiet

\* The deliverer on its own: started, stopped, filled and draining.
NextDeliverer ==
    \/ \E u \in Uids : StartCall(u)
    \/ StopCall
    \/ \E c \in Convs : Enqueue(c)
    \/ \E c \in Convs, outcome \in Outcomes : Attempt(c, outcome)

SpecDeliverer == InitDeliverer /\ [][NextDeliverer]_vars

\* The deliverer of one identity and one conversation: stopped and started
\* again while it is filled and drains.
NextRestart ==
    \/ StartCall(1)
    \/ StopCall
    \/ Enqueue(1)
    \/ \E outcome \in Outcomes : Attempt(1, outcome)

\* A stopped deliverer is started again, and while delivery is active an
\* attempt on the head of the conversation succeeds in the end.
SpecRestart ==
    /\ InitDeliverer
    /\ [][NextRestart]_vars
    /\ WF_vars(dlvIdentity = 0 /\ StartCall(1))
    /\ SF_vars(Attempt(1, "sent"))

\* The daemon with or without a push client, the handler's methods taken not
\* to read their receiver, and the calls that go through d.gregor.
NextAbsent ==
    \/ NextStartup
    \/ hourlyChecks
    \/ createMessageDeliverer
    \/ \E create \in BOOLEAN, check \in LoginChecks :
          startupGregor(create, check, "nil")
    \/ startMessageDeliverer
    \/ addGlobalHooks
    \/ configureRekey(FALSE)
    \/ \E ok \in BOOLEAN : tryLogin(ok, "nil", "ok", FALSE)
    \/ runBackgroundIdentifier("ok")
    \/ RunListenLoopWithStopper
    \/ Login(1, "nil", "ok", FALSE)
    \/ Logout
    \/ gregor = 0 /\ GregorDismiss(1)
    \/ GregorInject
    \/ GregorInjectOutOfBandMessage
    \/ HasGregor
    \/ chatRemoteClient

SpecAbsent == InitService /\ [][NextAbsent]_vars

\* Run from its start to its return, with the callers of Stop and an accept
\* loop that may fail.
NextStop ==
    \/ NextStartup
    \/ hourlyChecks
    \/ createMessageDeliverer
    \/ startupGregor(TRUE, "in", "nil")
    \/ startMessageDeliverer
    \/ addGlobalHooks
    \/ configureRekey(TRUE)
    \/ tryLogin(FALSE, "nil", "ok", TRUE)
    \/ runBackgroundIdentifier("ok")
    \/ RunListenLoopWithStopper
    \/ \E s \in Stoppers, code \in ExitCodes : Stop(s, code)
    \/ RunStopped
    \/ \E err \in {"nil", "accept"} : ListenLoopLeave(err)
    \/ RunReturn

\* The goroutines run: ListenLoopWithStopper takes an exit code that is being
\* sent and the error the accept loop sends, and Accept on the closed
\* listener returns.
SpecStop ==
    /\ InitService
    /\ [][NextStop]_vars
    /\ WF_vars(RunStopped)
    /\ WF_vars(ListenLoopLeave("nil"))
    /\ WF_vars(RunReturn)

\* Run from its start to its return, with the tasks that wait for the start
\* notification.
NextStart ==
    \/ NextStartup
    \/ hourlyChecks
    \/ createMessageDeliverer
    \/ startupGregor(TRUE, "in", "nil")
    \/ startMessageDeliverer
    \/ addGlobalHooks
    \/ configureRekey(TRUE)
    \/ tryLogin(FALSE, "nil", "ok", TRUE)
    \/ runBackgroundIdentifier("ok")
    \/ RunListenLoopWithStopper
    \/ Stop(1, 2)
    \/ RunStopped
    \/ \E err \in {"nil", "accept"} : ListenLoopLeave(err)
    \/ RunReturn
    \/ \E w \in Waiters : GetStartChannel(w)
    \/ \E w \in Waiters : WaiterReleased(w)

\* A task that waits on a closed channel gets to run.
SpecStart ==
    /\ InitService
    /\ [][NextStart]_vars
    /\ \A w \in Waiters : WF_vars(WaiterReleased(w))

\* The push client over startup, logins and logouts, with its connect loop
\* and the broker pushing items.
NextPush ==
    \/ NextStartup
    \/ hourlyChecks
    \/ createMessageDeliverer
    \/ \E check \in LoginChecks, how \in ConnectResults :
          startupGregor(TRUE, check, how)
    \/ startMessageDeliverer
    \/ addGlobalHooks
    \/ configureRekey(TRUE)
    \/ \E ok \in BOOLEAN, how \in ConnectResults : tryLogin(ok, how, "ok", TRUE)
    \/ runBackgroundIdentifier("ok")
    \/ RunListenLoopWithStopper
    \/ \E how \in ConnectResults : Login(1, how, "ok", TRUE)
    \/ Logout
    \/ ConnectionLost
    \/ ReconnectBegin
    \/ \E ok \in BOOLEAN : ReconnectEnd(ok)
    \/ \E id \in Items : BrokerPush(id)

\* No other instance runs and the outbox is empty; a user may be configured.
InitPush ==
    /\ pidLock = "free" /\ socketFile = "none"
    /\ uid \in {0, 1}
    /\ ServiceNew
    /\ DelivererNew
    /\ VersionsQuiet
    /\ ClientQuiet

SpecPush == InitPush /\ [][NextPush]_vars

\* The push client, connected at startup, with its connect loop, the broker
\* pushing items and GregorDismiss calls for the items pushed so far.
NextDismiss ==
    \/ NextStartup
    \/ hourlyChecks
    \/ createMessageDeliverer
    \/ \E create \in BOOLEAN : startupGregor(create, "in", "nil")
    \/ startMessageDeliverer
    \/ addGlobalHooks
    \/ configureRekey(FALSE)
    \/ tryLogin(FALSE, "nil", "ok", TRUE)
    \/ runBackgroundIdentifier("ok")
    \/ RunListenLoopWithStopper
    \/ ConnectionLost
    \/ ReconnectBegin
    \/ \E ok \in BOOLEAN : ReconnectEnd(ok)
    \/ \E id \in Items : BrokerPush(id)
    \/ \E id \in 1..lastDelivery.id : GregorDismiss(id)
    \/ gregor = 0 /\ GregorDismiss(1)

SpecDismiss == InitPush /\ [][NextDismiss]_vars

(***************************************************************************)
(* Claims about the version cache, checked under SpecVersions.             *)
(***************************************************************************)
\* Goroutine p runs the body of method op in this step.
BodyStep(p, op) == vpc[p] = "locked" /\ vop[p] = op /\ vpc'[p] = "ret"

\* Goroutine p is between Lock and Unlock.
Inside(p) == vpc[p] \in {"locked", "put", "ret"}

\* Some goroutine executes a statement of Sync in this step.
SyncStep == \E p \in Procs : vop[p] = "Sync" /\ vpc[p] \in {"locked", "put"}
                             /\ vpc'[p] # vpc[p]

Ok(v) == [vers |-> v, err |-> NoErr]

\* C1: Fetch returns the in-memory value when there is one; otherwise the
\* decoded persisted record when the store read succeeds and finds one;
\* otherwise (read succeeds, no record) the zero value with no error.  Fetch
\* fails only with no memory copy and a failing read or an undecodable record,
\* so an absent record is never an error.
C1_FetchPrecedence ==
    [][\A p \in Procs : BodyStep(p, "Fetch") =>
         /\ cached # <<>> => vres'[p] = Ok(cached[1])
         /\ (cached = <<>> /\ fault # "store" /\ db # <<>> /\ decode(db[1]).ok)
               => vres'[p] = Ok(decode(db[1]).v)
         /\ (cached = <<>> /\ fault # "store" /\ db = <<>>)
               => vres'[p] = Ok(ZeroVers)
         /\ vres'[p].err # NoErr =>
               /\ cached = <<>>
               /\ fault = "store" \/ (db # <<>> /\ ~decode(db[1]).ok)]_vars

\* C1 witness: a Fetch has returned the zero value, without error, from a
\* cache with no memory copy and no persisted record.
C1_Witness ==
    \E p \in Procs : /\ vpc[p] = "ret" /\ vop[p] = "Fetch"
                     /\ vres[p] = Ok(ZeroVers)
                     /\ cached = <<>> /\ db = <<>>

\* What MatchInbox / MatchBodies must return for argument vers and the field.
MatchExpected(vers, field) ==
    LET f == fetchLocked.ret
    IN  IF f.err # NoErr THEN f.err
        ELSE IF vers = f.vers[field] THEN NoErr
        ELSE [kind |-> "VersionMismatch", expected |-> vers,
              actual |-> f.vers[field]]

\* C2: MatchInbox / MatchBodies succeed exactly when the argument equals the
\* InboxVers / BodiesVers of the value Fetch returns in the same state; on an
\* inequality the error is VersionMismatch(expected = argument, actual = the
\* cached field); a mismatch is never a success.
C2_MatchCompares ==
    [][\A p \in Procs :
         /\ BodyStep(p, "MatchInbox") =>
              /\ vres'[p].err = MatchExpected(mvers[p], "InboxVers")
              /\ (vres'[p].err = NoErr) <=>
                    (fetchLocked.ret.err = NoErr
                     /\ mvers[p] = fetchLocked.ret.vers.InboxVers)
         /\ BodyStep(p, "MatchBodies") =>
              /\ vres'[p].err = MatchExpected(mvers[p], "BodiesVers")
              /\ (vres'[p].err = NoErr) <=>
                    (fetchLocked.ret.err = NoErr
                     /\ mvers[p] = fetchLocked.ret.vers.BodiesVers)]_vars

\* C2 witness: after a Sync of {1,1} reached memory and the store,
\* MatchBodies(2) has returned VersionMismatch(2, 1).
C2_Witness ==
    \E p \in Procs : /\ vpc[p] = "ret" /\ vop[p] = "MatchBodies"
                     /\ mvers[p] = 2
                     /\ cached = <<[InboxVers |-> 1, BodiesVers |-> 1]>>
                     /\ db = <<encode([InboxVers |-> 1, BodiesVers |-> 1])>>
                     /\ vres[p].err = [kind |-> "VersionMismatch",
                                       expected |-> 2, actual |-> 1]

\* C3: a Sync(v) that returns success leaves v in memory and a persisted
\* record that decodes to v, whatever was held before; from then on, until a
\* statement of another Sync runs, memory and store keep v and every Fetch
\* returns exactly v.
C3_SyncReplaces ==
    [][/\ \A p \in Procs :
            (vop[p] = "Sync" /\ vpc[p] = "put" /\ vpc'[p] = "ret"
             /\ vres'[p].err = NoErr) =>
               /\ cached' = <<svers[p]>>
               /\ db' # <<>> /\ decode(db'[1]) = [ok |-> TRUE, v |-> svers[p]]
       /\ \A v \in ServerCacheVers :
            (cached = <<v>> /\ db # <<>> /\ decode(db[1]) = [ok |-> TRUE, v |-> v]
             /\ ~SyncStep) =>
               /\ cached' = <<v>> /\ db' = db
               /\ \A p \in Procs : BodyStep(p, "Fetch") => vres'[p] = Ok(v)]_vars

\* C3 witness: a Sync has returned success for a value that differs from the
\* zero value, and memory and store both hold it.
C3_Witness ==
    \E p \in Procs : /\ vpc[p] = "ret" /\ vop[p] = "Sync"
                     /\ vres[p].err = NoErr
                     /\ svers[p] = [InboxVers |-> 2, BodiesVers |-> 1]
                     /\ cached = <<svers[p]>>
                     /\ db = <<encode(svers[p])>>

\* C4: at most one goroutine is between Lock and Unlock of locks.Version;
\* while a goroutine is there, no other goroutine changes the memory copy or
\* the persisted record; and the value a Fetch is about to return is the
\* pair currently held, never one that a concurrent Sync has half replaced.
C4_MutualExclusion ==
    /\ [](Cardinality({p \in Procs : Inside(p)}) <= 1)
    /\ [](\A p \in Procs :
            (vpc[p] = "ret" /\ vop[p] = "Fetch" /\ vres[p].err = NoErr
             /\ cached # <<>>) => vres[p].vers = cached[1])
    /\ [][\A p \in Procs :
            (Inside(p) /\ vpc'[p] = vpc[p]) => (cached' = cached /\ db' = db)]_vars

\* C4 witness: one goroutine holds the lock inside Sync, between its memory
\* write and its store write (memory and store disagree), and another
\* goroutine is outside.
C4_Witness ==
    \E p, q \in Procs : /\ p # q
                        /\ vpc[p] = "put" /\ vop[p] = "Sync"
                        /\ vpc[q] = "idle"
                        /\ versionLock = p
                        /\ cached = <<svers[p]>>
                        /\ db # <<encode(svers[p])>>

\* The value a Fetch returns in this state, when it returns one.
FetchOk == fetchLocked.ret.err = NoErr

FetchView == fetchLocked.ret.vers

\* C5 (as claimed): over any sequence of Sync calls with arbitrary
\* arguments, the InboxVers and BodiesVers that Fetch returns never decrease.
C5_NeverDecreases ==
    [][(FetchOk /\ FetchOk') =>
         /\ FetchView'.InboxVers >= FetchView.InboxVers
         /\ FetchView'.BodiesVers >= FetchView.BodiesVers]_vars

\* C5 (amended): the cache itself never lowers a version: the value Fetch
\* returns goes down only in the memory write of a Sync whose argument is
\* lower than the value held, and then it becomes exactly that argument.
C5_DecreaseOnlyBySync ==
    [][(/\ FetchOk /\ FetchOk'
        /\ \/ FetchView'.InboxVers < FetchView.InboxVers
           \/ FetchView'.BodiesVers < FetchView.BodiesVers) =>
         \E p \in Procs :
            /\ vop[p] = "Sync" /\ vpc[p] = "locked" /\ vpc'[p] = "put"
            /\ FetchView' = svers[p]
            /\ \/ svers[p].InboxVers < FetchView.InboxVers
               \/ svers[p].BodiesVers < FetchView.BodiesVers]_vars

\* C5 witness: a Sync has written to memory a value lower than the persisted
\* one it replaces.
C5_Witness ==
    \E p \in Procs : /\ vop[p] = "Sync" /\ vpc[p] = "put"
                     /\ cached = <<svers[p]>>
                     /\ db # <<>> /\ decode(db[1]).ok
                     /\ svers[p].InboxVers < decode(db[1]).v.InboxVers

(***************************************************************************)
(* Claims about the RPC client, checked under SpecClient and SpecTags.     *)
(***************************************************************************)
\* The non-nil contexts the callers of SpecClient pass.
LiveCtxs == CtxKinds \ {NilCtx}

\* The response frames the receive loop reads in this step.
Read == replies \ replies'

\* Caller c's blocked call returns in this step.
Completes(c) == cpc[c] = "waiting" /\ cpc'[c] = "returned"

OthersUntouched(c) ==
    \A d \in Callers \ {c} :
       /\ cpc'[d] = cpc[d] /\ cop'[d] = cop[d] /\ cseq'[d] = cseq[d]
       /\ cctx'[d] = cctx[d] /\ handed'[d] = handed[d] /\ given'[d] = given[d]
       /\ cret'[d] = cret[d] /\ ctrace'[d] = ctrace[d]

\* C6: Call and Notify with a nil context return the no-context error at
\* once: no collaborator is invoked (no tag extraction, no receiveFrames, no
\* getDispatcher, no d.Call / d.Notify) and the transport is left as it was,
\* with no frame sent.
C6_NilContext ==
    [][\A c \in Callers :
         (Call(c, NilCtx) \/ Notify(c, NilCtx)) =>
            /\ cpc'[c] = "returned"
            /\ cret'[c] = [res |-> NoRes, err |-> Err("NoContext")]
            /\ ctrace'[c] = <<>>
            /\ UNCHANGED xpVars]_vars

\* C6 witness: a Call with a nil context has returned the no-context error on
\* a closed transport (so the dispatcher was not asked for), with frame
\* reception never started and no frame ever sent.
C6_Witness ==
    \E c \in Callers : /\ cop[c] = "Call" /\ cpc[c] = "returned"
                       /\ cret[c].err = Err("NoContext")
                       /\ ~xpOpen /\ ~receiving /\ nextSeq = 1

\* C7: a blocked Call whose context is cancelled returns the cancellation
\* error; the connection stays up and the other callers are not touched; a
\* call that is still blocked keeps its table entry and its frame or response
\* in flight; a call completed by a response is completed by the response
\* under its own sequence number; and a response whose call is no longer in
\* the table (the late response of a cancelled call) is dropped without
\* changing any caller.  With the remote side answering and the receive loop
\* running, every blocked call, a call made after a cancelled one included,
\* eventually returns.
C7_Cancellation ==
    /\ \A c \in Callers : (cpc[c] = "waiting") ~> (cpc[c] = "returned")
    /\ [](\A c \in Callers : cpc[c] = "waiting" =>
            /\ xpOpen /\ receiving /\ cseq[c] \in calls
            /\ \/ [type |-> "call", n |-> cseq[c]] \in wire
               \/ \E r \in replies : r.seqid = cseq[c])
    /\ [][/\ \A c \in Callers : Cancel(c) =>
               /\ cpc'[c] = "returned"
               /\ cret'[c] = [res |-> NoRes, err |-> Err("canceled")]
               /\ xpOpen' = xpOpen /\ receiving' = receiving
               /\ calls' = calls \ {cseq[c]}
               /\ OthersUntouched(c)
          /\ \A c \in Callers :
               (Completes(c) /\ cret'[c].err.kind \notin {"canceled", "EOF"}) =>
                  \E r \in Read : /\ r.seqid = cseq[c]
                                  /\ (r.kind = "result") <=> (cret'[c].res = Result)
                                  /\ (r.kind = "result") <=> (cret'[c].err = NilErr)
          /\ (xpOpen' /\ \E r \in Read : r.seqid \notin calls) =>
                UNCHANGED callerVars]_vars

\* C7 witness: one caller made both calls of the run; its first call was
\* cancelled (the response to sequence number 1 is still on its way) and its
\* second call has completed with a result on the same, still open, transport.
C7_Witness ==
    \E c \in Callers :
       /\ \A d \in Callers \ {c} : cop[d] = "none"
       /\ cop[c] = "Call" /\ cpc[c] = "returned"
       /\ cret[c] = [res |-> Result, err |-> NilErr]
       /\ nextSeq = 3 /\ xpOpen
       /\ replies = {[seqid |-> 1, kind |-> "result"]}
       /\ wire = {}

\* C8: Notify with a non-nil context asks for the dispatcher and sends one
\* notification frame; it returns at once (it never blocks for a response),
\* never starts frame reception, hands over no error unwrapper and touches
\* neither the call table nor the responses; it returns nil, the dispatcher
\* acquisition error or the local send error, and what it returned never
\* becomes a remote error later.
C8_NotifyFireAndForget ==
    /\ [](\A c \in Callers : cop[c] = "Notify" =>
            /\ cpc[c] = "returned" /\ cret[c].res = NoRes
            /\ cret[c].err \in {NilErr, Err("NoContext"), Err("EOF"), Err("SendError")})
    /\ [][\A c \in Callers, ctx \in LiveCtxs : Notify(c, ctx) =>
            /\ cpc'[c] = "returned" /\ given'[c] = "nil"
            /\ receiving' = receiving /\ calls' = calls /\ replies' = replies
            /\ xpOpen' = xpOpen
            /\ \/ /\ cret'[c].err = NilErr /\ xpOpen
                  /\ wire' = wire \cup {[type |-> "notify", n |-> nextSeq]}
                  /\ nextSeq' = nextSeq + 1
                  /\ ctrace'[c] = <<"getDispatcher", "d.Notify">>
               \/ /\ cret'[c].err = Err("SendError") /\ xpOpen
                  /\ wire' = wire /\ nextSeq' = nextSeq
                  /\ ctrace'[c] = <<"getDispatcher", "d.Notify">>
               \/ /\ cret'[c].err = Err("EOF") /\ ~xpOpen
                  /\ wire' = wire /\ nextSeq' = nextSeq
                  /\ ctrace'[c] = <<"getDispatcher">>]_vars

\* C8 witness: a Notify has returned nil with its notification frame still on
\* the wire, frame reception never started and no call in the table.
C8_Witness ==
    \E c \in Callers : /\ cop[c] = "Notify" /\ cpc[c] = "returned"
                       /\ cret[c].err = NilErr
                       /\ \E f \in wire : f.type = "notify"
                       /\ ~receiving /\ calls = {}

\* The (tag name, value) pairs of the keys that have a value in ctx.
TagPairs(ctx) ==
    {<<ctx.tags[k], ctx.vals[k]>> : k \in {j \in Keys : ctx.vals[j] # NilValue}}

\* The (tag name, value) pairs a handed context carries.
HandedPairs(h) == {<<t, h.rpcTags[t]>> : t \in DOMAIN h.rpcTags}

\* C9 (as claimed): when an extraction function is configured and reports
\* tags, the context handed to the dispatcher carries exactly one RPC tag
\* (tag name -> value) for each extracted key with a non-nil value and none
\* for the others; otherwise the context carries no tags of the call.
C9_ExactlyOneTagPerKey ==
    \A c \in Callers : cpc[c] = "waiting" =>
       IF tagsFunc = "func" /\ cctx[c].ok
       THEN /\ handed[c].attached
            /\ HandedPairs(handed[c]) = TagPairs(cctx[c])
       ELSE handed[c] = NoTags

\* C9 (amended): the handed context carries exactly one RPC tag per tag name
\* that some extracted key with a non-nil value maps to, whose value is the
\* context value of such a key, and no tag for a key without a value; this is
\* one tag per key when the tag names of those keys are distinct.  Without an
\* extraction function, or when it reports no tags, no tags are attached.
\* The tags are attached before the frame is sent.
C9_OneTagPerName ==
    \A c \in Callers : cpc[c] = "waiting" =>
       IF tagsFunc = "func" /\ cctx[c].ok
       THEN /\ handed[c].attached
            /\ HandedPairs(handed[c]) \subseteq TagPairs(cctx[c])
            /\ DOMAIN handed[c].rpcTags = {p[1] : p \in TagPairs(cctx[c])}
            /\ (\A p, q \in TagPairs(cctx[c]) : p[1] = q[1] => p = q)
                  => HandedPairs(handed[c]) = TagPairs(cctx[c])
            /\ ctrace[c] = <<"tagsFunc", "AddRpcTagsToContext", "receiveFrames",
                             "getDispatcher", "d.Call">>
            /\ [type |-> "call", n |-> cseq[c]] \in wire
                  \/ \E r \in replies : r.seqid = cseq[c]
       ELSE handed[c] = NoTags

\* C9 witness: a call is blocked whose context gives two keys with different
\* values the same tag name; the handed context carries one tag of that name.
C9_Witness ==
    \E c \in Callers :
       /\ cpc[c] = "waiting" /\ tagsFunc = "func" /\ cctx[c].ok
       /\ cctx[c].tags["k1"] = "t1" /\ cctx[c].tags["k2"] = "t1"
       /\ cctx[c].vals["k1"] = "a" /\ cctx[c].vals["k2"] = "b"
       /\ handed[c].rpcTags = [t \in {"t1"} |-> "b"]

\* C10: every Call hands the client's configured ErrorUnwrapper to the
\* dispatcher; a wire-level error in the response comes back translated by it,
\* or in its generic form when the client has none; when the dispatcher cannot
\* be obtained, Call returns that error as it is and sends nothing.
C10_ErrorUnwrapping ==
    /\ [](\A c \in Callers : cpc[c] = "waiting" => given[c] = errorUnwrapper)
    /\ [][/\ \A c \in Callers : \A r \in Read :
               (Completes(c) /\ xpOpen' /\ r.seqid = cseq[c]
                /\ r.kind \in RemoteErrs) =>
                  /\ cret'[c].res = NoRes
                  /\ cret'[c].err = IF errorUnwrapper = "nil" THEN Err(r.kind)
                                    ELSE Unwrap(Err(r.kind))
          /\ \A c \in Callers, ctx \in LiveCtxs :
               (Call(c, ctx) /\ ~xpOpen) =>
                  /\ cpc'[c] = "returned"
                  /\ cret'[c] = [res |-> NoRes, err |-> Err("EOF")]
                  /\ wire' = wire /\ nextSeq' = nextSeq
                  /\ calls' = calls /\ replies' = replies]_vars

\* C10 witness: on a client built with an ErrorUnwrapper, a Call has returned
\* the translated form of the error its response carried.
C10_Witness ==
    \E c \in Callers : /\ errorUnwrapper = "unwrapper"
                       /\ cop[c] = "Call" /\ cpc[c] = "returned"
                       /\ cret[c].err = Unwrap(Err("remote"))

(***************************************************************************)
(* Claims about Service.Run, checked under SpecService.                    *)
(***************************************************************************)
\* Run's positions inside RunBackgroundOperations.
BgPcs == {"hourlyChecks", "createMessageDeliverer", "startupGregor",
          "startMessageDeliverer", "addGlobalHooks", "configureRekey",
          "tryLogin", "runBackgroundIdentifier"}

\* This step removes the socket file, opens a store, binds the endpoint,
\* runs a background operation or starts the listen loop.
LaterStep ==
    \/ socketFile' # socketFile
    \/ storesOpen' # storesOpen
    \/ listener # "bound" /\ listener' = "bound"
    \/ runPc \in BgPcs /\ runPc' # runPc
    \/ listenPc = "none" /\ listenPc' # "none"

\* RunBackgroundOperations has not begun and no listen loop runs.
NothingStarted ==
    /\ \A i \in 1..Len(hooks) : hooks[i].kind = "lock"
    /\ gMessageDeliverer = 0 /\ gregor = 0 /\ ~loginHooks
    /\ dlvIdentity = 0 /\ backgroundIdentifier = NoBgi
    /\ listenPc = "none"
    /\ \A c \in Conns : hpc[c] = "none"

\* C11: Run holds the pid-file lock when it removes a socket file, opens a
\* store, binds the endpoint, runs a background operation or starts the listen
\* loop; while another instance holds the lock, Run gets no further than
\* GetExclusiveLock, returns an error from there and does none of those steps;
\* the socket file of the running instance is never removed.
C11_SingleInstanceLock ==
    /\ [][LaterStep => pidLock = "self"]_vars
    /\ [][socketFile = "other" => socketFile' = "other"]_vars
    /\ [](pidLock = "other" =>
            /\ runPc \in {"start", "info", "returned"}
            /\ runPc = "returned" => runErr \in {"info", "lock"}
            /\ storesOpen = {} /\ listener = "none"
            /\ NothingStarted)

\* C11 witness: another instance holds the lock and has bound its socket; Run
\* has returned the lock error and the socket file is still there.
C11_Witness ==
    /\ pidLock = "other" /\ socketFile = "other"
    /\ runPc = "returned" /\ runErr = "lock"

\* Run returns err in this step.
RunFails(err) == runPc' = "returned" /\ runErr' = err

\* C12: when the lock is not acquired, a local store does not open or the
\* socket does not bind, Run returns that error; after such a return
\* RunBackgroundOperations has not run and no listen loop is ever started.
C12_FatalStartupErrors ==
    /\ [][/\ RunGetExclusiveLock(FALSE) => RunFails("lock")
          /\ (pidLock = "other" /\ RunGetExclusiveLock(TRUE)) => RunFails("lock")
          /\ RunForceOpenLocalDb(FALSE) => RunFails("LocalDb")
          /\ RunForceOpenLocalChatDb(FALSE) => RunFails("LocalChatDb")
          /\ RunConfigRPCServer(FALSE) => RunFails("bind")]_vars
    /\ []((runPc = "returned"
            /\ runErr \in {"lock", "LocalDb", "LocalChatDb", "bind"})
           => NothingStarted)

\* C12 witness: the lock is held and the first store is open, the chat store
\* did not open and Run has returned that error.
C12_Witness ==
    /\ runPc = "returned" /\ runErr = "LocalChatDb"
    /\ pidLock = "self" /\ storesOpen = {"LocalDb"}
    /\ NothingStarted

(***************************************************************************)
(* Claims about the connections, checked under SpecService.                *)
(***************************************************************************)
\* The shutdown hook of connection c has been run.
HookRan(c) ==
    \E i \in 1..Len(hooks) :
       hooks[i] = [kind |-> "conn", conn |-> c] /\ i <= shutdownPc

\* C13: the shutdowners of a connection are shut down at most once, whether
\* the deferred call, the shutdown hook or both run and in whichever order;
\* once Handle has returned, after a server end or a failed protocol
\* registration, they have been shut down.
C13_TeardownOnce ==
    \A c \in Conns :
       /\ teardowns[c] <= 1
       /\ shutdownOnce[c] => teardowns[c] = 1
       /\ hpc[c] = "returned" => teardowns[c] = 1

\* C13 witness: a connection whose protocol registration failed (nothing was
\* sent on its channel) has returned from Handle and its shutdown hook has run
\* as well.
C13_Witness ==
    \E c \in Conns :
       /\ hpc[c] = "returned" /\ cl[c] = <<>>
       /\ HookRan(c)
       /\ teardowns[c] = 1

\* Connection a closes in this step: its server ends, its protocol
\* registration fails or its Handle returns.
Closes(a) == hpc'[a] # hpc[a] /\ hpc'[a] \in {"closing", "returned"}

\* C14: connections that were set up have transports and servers of their
\* own; a step in which connection a closes leaves every other connection
\* where it is: its server keeps running and the call it serves stays in
\* flight.
C14_ConnectionIndependence ==
    /\ [](\A a, b \in Conns :
            (a # b /\ xp[a] # 0 /\ xp[b] # 0) =>
               /\ xp[a] # xp[b]
               /\ server[a] # server[b])
    /\ [][\A a, b \in Conns :
            (a # b /\ Closes(a)) =>
               /\ hpc'[b] = hpc[b]
               /\ inflight'[b] = inflight[b]
               /\ cl'[b] = cl[b]
               /\ teardowns'[b] = teardowns[b]]_vars

\* C14 witness: one connection has closed with an error and its Handle has
\* returned, while the other one is running and serving a call.
C14_Witness ==
    \E a, b \in Conns :
       /\ a # b
       /\ hpc[a] = "returned" /\ cl[a] = <<"error">>
       /\ hpc[b] = "running" /\ inflight[b]

\* C18: a step in which a connection closes leaves Run, the listen loop and
\* the listener where they are; the listen loop is only left when Accept
\* fails, and once it has started Run only returns after Stop was called.
C18_SurvivesConnectionErrors ==
    /\ [][(\E c \in Conns : Closes(c)) =>
             UNCHANGED <<runPc, runErr, listenPc, listenErr, listener, stopPc>>]_vars
    /\ [](listenPc \in {"left", "done"} =>
             listenErr = "accept" \/ listener = "closed")
    /\ []((runPc = "returned" /\ listenPc # "none")
            => \E s \in Stoppers : stopPc[s] = "sent")
    /\ [](listener = "closed" => \E s \in Stoppers : stopPc[s] = "sent")

\* C18 witness: a protocol registration has failed on one connection and a
\* server has ended with an error on another; Run is still waiting for Stop
\* and the listen loop is still accepting on the bound listener.
C18_Witness ==
    /\ runPc = "stopCh" /\ listenPc = "accepting" /\ listener = "bound"
    /\ \E a, b \in Conns :
          /\ hpc[a] = "returned" /\ cl[a] = <<>>
          /\ hpc[b] = "returned" /\ cl[b] = <<"error">>

(***************************************************************************)
(* Claims about login and logout, checked under SpecSession.               *)
(***************************************************************************)
\* The last hook that ran invoked collaborator what.
Invoked(what) == \E i \in 1..Len(otrace) : otrace[i] = what

\* The last hook that ran was OnLogin, and it did not panic.
OnLoginRan ==
    /\ otrace # <<>> /\ otrace[1] = "rekeyMaster.Login"
    /\ oret # "panic"

\* C15: whenever OnLogin has run for a logged-in identity with a push client
\* to connect, the Deliverer's Start was invoked for that identity, whether or
\* not the push client connected.
C15_IndependentStarts ==
    (OnLoginRan /\ gregor # 0) => /\ Invoked("MessageDeliverer.Start")
                                  /\ dlvIdentity = uid

\* The session components exist and are running.
SessionRunning ==
    /\ gregor # 0 /\ gConnected
    /\ gMessageDeliverer # 0 /\ dlvIdentity # 0
    /\ backgroundIdentifier.id # 0 /\ backgroundIdentifier.live

\* C16: an OnLogout that runs while the push client, the deliverer and the
\* background identifier exist and are running invokes the stop operation of
\* all three, and the deliverer is stopped afterwards.
C16_LogoutStopsAll ==
    [][(uid # 0 /\ uid' = 0 /\ SessionRunning) =>
          /\ \E i \in 1..Len(otrace') : otrace'[i] = "gregor.Shutdown"
          /\ \E i \in 1..Len(otrace') : otrace'[i] = "messageDeliverer.Stop"
          /\ \E i \in 1..Len(otrace') : otrace'[i] = "backgroundIdentifier.Logout"
          /\ dlvIdentity' = 0]_vars

\* C17: the push client and the deliverer serving a logged-in identity are
\* never instances that were in use at an earlier logout.
C17_SessionScoped ==
    uid # 0 =>
       /\ (gregor # 0 /\ gConnected) => gregor \notin retired
       /\ (gMessageDeliverer # 0 /\ dlvIdentity # 0) =>
             gMessageDeliverer \notin retired

\* Start is called on the deliverer in this step: by startMessageDeliverer,
\* or by an OnLogin run by tryLogin or by a login.
StartCalled ==
    \/ runPc = "startMessageDeliverer" /\ runPc' # runPc /\ uid # 0
    \/ /\ \/ logins' = logins + 1
          \/ runPc = "tryLogin" /\ runPc' # runPc /\ otrace' # <<>>
       /\ \E i \in 1..Len(otrace') : otrace'[i] = "MessageDeliverer.Start"

\* C19: a Start for the identity delivery is already active for changes
\* nothing: no further delivery loop, no entry reset or attempted; there is
\* never more than one delivery loop.
C19_StartIdempotent ==
    /\ [][(StartCalled /\ dlvIdentity = uid') =>
             UNCHANGED <<dlvIdentity, dlvLoops, outbox, estate, econv, attempts>>]_vars
    /\ [](dlvLoops <= 1)

\* C19 witness: delivery was started for the configured user at startup, an
\* entry met a transient failure, and the OnLogin run by tryLogin has called
\* Start for the same user: one loop, the entry still waits for its retry.
C19_Witness ==
    /\ runPc = "runBackgroundIdentifier" /\ uid = 1
    /\ OnLoginRan /\ Invoked("MessageDeliverer.Start")
    /\ dlvIdentity = 1 /\ dlvLoops = 1
    /\ estate[1] = "retry" /\ attempts = <<1>>

(***************************************************************************)
(* Claims about the delivery loop, checked under SpecDeliverer.            *)
(***************************************************************************)
\* The position of the first attempt on entry e (0: none yet).
FirstAttempt(e) ==
    IF \E i \in 1..Len(attempts) : attempts[i] = e
      THEN CHOOSE i \in 1..Len(attempts) :
              /\ attempts[i] = e
              /\ \A j \in 1..(i - 1) : attempts[j] # e
      ELSE 0

\* C20: entries of one conversation are first attempted in the order they
\* were enqueued; an entry is attempted only when every earlier entry of its
\* conversation is sent or has failed for good, so never while one is pending
\* or waits for a retry; and while delivery is active the head of a
\* conversation can be attempted whatever the entries of the other
\* conversations wait for.
C20_PerConversationFifo ==
    /\ [](\A d, e \in Entries :
            (d < e /\ econv[d] = econv[e] /\ FirstAttempt(e) # 0) =>
               /\ FirstAttempt(d) # 0
               /\ FirstAttempt(d) < FirstAttempt(e))
    /\ [][attempts' # attempts =>
            LET e == attempts'[Len(attempts')]
            IN  \A d \in Entries :
                   (d < e /\ econv[d] = econv[e]) => estate[d] \in {"sent", "failed"}]_vars
    /\ [](\A c \in Convs :
            (dlvIdentity # 0 /\ outbox[c] # <<>> /\ Len(attempts) < MaxAttempts) =>
               ENABLED Attempt(c, "sent"))

\* C20 witness: entries 1 and 2 of one conversation and entry 3 of the other;
\* entry 1 fails transiently, entry 3 is attempted meanwhile, entry 1 is
\* retried and only then entry 2 is attempted.
C20_Witness ==
    /\ econv = <<1, 1, 2>>
    /\ attempts = <<1, 3, 1, 2>>

(***************************************************************************)
(* The version cache: the memory copy and the stored record.               *)
(***************************************************************************)
\* C27: whenever no method of the version cache is running and a memory copy
\* is present, the store denotes that same version (an empty store denotes
\* the zero version); a Sync that fails leaves no memory copy the store does
\* not have.
C27_MemoryAgreesWithStore ==
    (versionLock = 0 /\ cached # <<>>)
        => \/ db = <<encode(cached[1])>>
           \/ db = <<>> /\ cached[1] = ZeroVers

(***************************************************************************)
(* The start channel.                                                      *)
(***************************************************************************)
\* C28: the start channel is closed exactly once per Run, on every path: it
\* is never closed twice, and it has been closed once the endpoint is bound
\* and once Run has returned, whether Run failed before the bind, in the bind
\* or returned after serving.
C28_StartChannelClosedOnce ==
    /\ startCh.closes <= 1
    /\ (listener # "none" \/ runPc = "returned") => startCh.closes = 1

\* Run has served, was stopped and has returned: ConfigRPCServer closed the
\* channel and the deferred close found the field nil.
C28_Witness ==
    /\ runPc = "returned" /\ runErr = "nil"
    /\ listener = "closed"
    /\ ~startCh.set
    /\ startCh.closes = 1

\* C29: every task that called GetStartChannel, at whatever moment, and waits
\* on the channel it got is released once the endpoint is bound or Run has
\* returned.
C29_EveryWaiterReleased ==
    \A w \in Waiters :
        (wpc[w] = "waiting" /\ (listener # "none" \/ runPc = "returned"))
            ~> (wpc[w] = "released")

(***************************************************************************)
(* The channel given to AddConnection.                                     *)
(***************************************************************************)
\* C30: when Handle has returned for a connection, an error has been sent on
\* the channel cl it gave to AddConnection, also when RegisterProtocols failed.
C30_TerminationReported ==
    \A c \in Conns : hpc[c] = "returned" => cl[c] # <<>>

(***************************************************************************)
(* The order of the logout teardown.                                       *)
(***************************************************************************)
\* The steps of OnLogout, in the order the claim gives.
LogoutOrder ==
    <<"gregor.Shutdown", "messageDeliverer.Stop", "rekeyMaster.Logout",
      "badger.Clear", "backgroundIdentifier.Logout">>

\* The component of a step is there: the service's field is not nil.
StepPresent(step) ==
    CASE step = "gregor.Shutdown" -> gregor # 0
      [] step = "messageDeliverer.Stop" -> messageDeliverer # 0
      [] step = "backgroundIdentifier.Logout" -> backgroundIdentifier.id # 0
      [] OTHER -> TRUE

\* C26: every OnLogout runs its steps in the order push client, deliverer,
\* rekey master, badger, background identifier, each at most once; the step of
\* a component that is absent is skipped and the later steps still run; and
\* OnLogout returns success.
C26_LogoutOrder ==
    [][(uid # 0 /\ uid' = 0)
          => /\ otrace' = SelectSeq(LogoutOrder, StepPresent)
             /\ oret' = "nil"]_vars

\* A logout without a push client: its step was skipped, the rekey master,
\* the badger and the background identifier were still logged out.
C26_Witness ==
    /\ uid = 0
    /\ gregor = 0
    /\ otrace = <<"rekeyMaster.Logout", "badger.Clear", "backgroundIdentifier.Logout">>
    /\ oret = "nil"

(***************************************************************************)
(* tryGregordConnect at startup.                                           *)
(***************************************************************************)
\* gregordConnect ran at startup.
ConnectAttempted == strace # <<>> \/ sret = "parse"

\* C25: tryGregordConnect attempts the connection exactly when LoggedInLoad
\* says logged in, or fails with a network error, and then returns what
\* gregordConnect returns; logged out, it attempts nothing and returns nil; on
\* any other error it attempts nothing and returns the error; and whatever it
\* returns, Run goes on to the next background operation.
C25_ConnectDecision ==
    [][\A check \in LoginChecks, how \in ConnectResults :
          startupGregor(TRUE, check, how)
            => /\ ConnectAttempted' <=> check \in {"in", "neterr"}
               /\ check \in {"in", "neterr"} => sret' = how
               /\ check = "out" => sret' = "nil"
               /\ check = "err" => sret' = "err"
               /\ runPc' = "startMessageDeliverer"
               /\ ~crashed']_vars

\* The connection attempt at startup failed and Run went on to serve.
C25_Witness ==
    /\ sret = "connect"
    /\ strace = <<"gregor.Connect">>
    /\ runPc = "stopCh"
    /\ ~crashed

(***************************************************************************)
(* The deliverer over Stop and Start.                                      *)
(***************************************************************************)
\* The entries that are queued and not resolved.
Undelivered == {e \in Entries : estate[e] \in {"pending", "retry"}}

\* C21: Stop followed by Start keeps the queue. Stop and the Start after it
\* leave every conversation's queue, and the attempts made, as they were, and
\* an undelivered entry stays undelivered over them (no loss); every
\* undelivered entry is in the queue of its conversation exactly once and a
\* resolved one in none, and no entry is attempted again once it is sent or
\* has failed for good (no duplication); and every undelivered entry is
\* resolved in the end, as long as the attempts the model records last.
C21_StopStartKeepsQueue ==
    /\ [][(dlvIdentity # 0 /\ dlvIdentity' = 0)
             => UNCHANGED <<outbox, estate, econv, attempts>>]_vars
    /\ [][(dlvIdentity = 0 /\ dlvIdentity' # 0)
             => /\ UNCHANGED <<outbox, econv, attempts>>
                /\ Undelivered' = Undelivered
                /\ \A e \in Entries \ Undelivered : estate'[e] = estate[e]]_vars
    /\ [](\A e \in Entries, c \in Convs :
             Cardinality({i \in 1..Len(outbox[c]) : outbox[c][i] = e})
                = IF e \in Undelivered /\ econv[e] = c THEN 1 ELSE 0)
    /\ [][attempts' # attempts
             => attempts'[Len(attempts')] \in Undelivered]_vars
    /\ \A e \in Entries :
          (e \in Undelivered)
             ~> (estate[e] \in {"sent", "failed"} \/ Len(attempts) = MaxAttempts)

\* Entry 1 failed once, delivery was stopped and started again: both entries of
\* the conversation are still queued in their order, and entry 1 is to be
\* attempted anew.
C21_Witness ==
    /\ dlvIdentity = 1
    /\ attempts = <<1>>
    /\ outbox[1] = <<1, 2>>
    /\ estate[1] = "pending" /\ estate[2] = "pending"

(***************************************************************************)
(* The push client: dismissals, handlers and sessions.                     *)
(***************************************************************************)
\* C22: DismissItem is idempotent. A GregorDismiss on the push client returns
\* no error and leaves the item out of the broker's state; when the item was
\* dismissed before, the call changes nothing and still returns no error; and
\* a dismissed item never comes back.
C22_DismissIdempotent ==
    /\ [][\A id \in Items :
             (GregorDismiss(id) /\ gregor # 0)
                => /\ dlast'.ret = "nil"
                   /\ id \notin items'
                   /\ id \in dismissedIds
                        => items' = items /\ dismissedIds' = dismissedIds]_vars
    /\ [](dismissedIds \cap items = {})

\* Item 1 was pushed, dismissed and dismissed again, without error.
C22_Witness ==
    /\ gregor # 0
    /\ lastDelivery.id = 1
    /\ dlast = [id |-> 1, again |-> TRUE, ret |-> "nil"]
    /\ 1 \notin items

\* C23: the handlers Run pushes survive Reset. Once startupGregor has made the
\* push client the user handler and the rekey-log handler are registered, and
\* from configureRekey on the rekey master too, each exactly once, whatever
\* resets and connects follow; an item that arrives after a login is handed
\* to all three.
C23_HandlersSurviveReset ==
    /\ gregor # 0 =>
          gHandlers = IF runPc \in {"startMessageDeliverer", "addGlobalHooks",
                                    "configureRekey"}
                        THEN DefaultHandlers
                        ELSE AllHandlers
    /\ (lastDelivery.id # 0 /\ lastDelivery.login >= 1)
          => lastDelivery.to = AllHandlers

\* A login reset the connected push client and connected it again, and an item
\* that arrived afterwards reached the three handlers.
C23_Witness ==
    /\ logins >= 1
    /\ \E i \in 1..(Len(otrace) - 1) :
          otrace[i] = "gregor.Reset" /\ otrace[i + 1] = "gregor.Connect"
    /\ lastDelivery.id # 0
    /\ lastDelivery.login = logins
    /\ lastDelivery.to = AllHandlers

\* The moves of a session: Disconnected -> Connecting -> Connected ->
\* Disconnected, and a failed attempt back to Disconnected.
SessionMoves ==
    {<<"Disconnected", "Connecting">>, <<"Connecting", "Connected">>,
     <<"Connecting", "Disconnected">>, <<"Connected", "Disconnected">>}

C31_StopTerminates ==
    /\ [][(runPc = "stopCh" /\ runPc' = "ch") => listener' = "closed"]_vars
    /\ \A s \in Stoppers :
          (stopPc[s] = "sending" /\ runPc = "stopCh") ~> (stopPc[s] = "sent")
    /\ \A s \in Stoppers, code \in ExitCodes :
          (stopPc[s] = "sending" /\ stopCode[s] = code /\ runPc = "stopCh")
             ~> (runPc = "returned" /\ runErr = "nil" /\ exitCode = code)

\* C32: an accept failure ends the run. When the accept loop has left with an
\* error other than that of a closed socket and no Stop was requested, Run
\* returns that error in the end.
C32_AcceptFailureEndsRun ==
    (listenPc = "left" /\ listenErr = "accept"
        /\ \A s \in Stoppers : stopPc[s] = "idle")
       ~> (runPc = "returned" /\ runErr = "accept")

(***************************************************************************)
(* The service without a push client.                                      *)
(***************************************************************************)
\* C33: while no push client was created the service handles its absence:
\* GregorDismiss, GregorInject and GregorInjectOutOfBandMessage return an
\* error, HasGregor returns false, chatRemoteClient returns the error client,
\* and no call, configureRekey, OnLogin and OnLogout among them, brings the
\* process down on the nil d.gregor.
C33_AbsentPushClientHandled ==
    (gregor = 0) =>
       /\ ~crashed
       /\ dlast.id # 0 => dlast.ret = "no gregor"
       /\ gcall.op \in {"GregorInject", "GregorInjectOutOfBandMessage"}
             => gcall.ret = "no gregor"
       /\ gcall.op = "HasGregor" => gcall.ret = "false"
       /\ gcall.op = "chatRemoteClient" => gcall.ret = "errorClient"

====
